---------------------------- MODULE Spec2Model ----------------------------
(***************************************************************************)
(* Verification model of the observability client.                        *)
(*                                                                         *)
(* Part 1 (specification Spec): the hash router (app.js route), the        *)
(* notification channel (onEvent / ws.onmessage) and the two live views,   *)
(* the traces list (renderTracesList) and the dashboard (renderDashboard), *)
(* with their debounce timers, their queries in flight and their cleanup.  *)
(*                                                                         *)
(* Part 2 (specification TableSpec): the data table (data-table.js,        *)
(* renderDataTable) with its search, sort and page handlers.               *)
(*                                                                         *)
(* Part 3 (specification TreeSpec): the span tree of a trace               *)
(* (trace-tree.js, buildTree).                                             *)
(*                                                                         *)
(* Part 4 (specification TimelineSpec): the timeline of a trace            *)
(* (trace-timeline.js, renderTraceTimeline).                               *)
(*                                                                         *)
(* Part 5 (specification SessionSpec): the session view (session-view.js,  *)
(* renderSessionView) with the JSON viewers (trace-detail.js,              *)
(* renderJsonViewer) of its expanded cards.                                *)
(*                                                                         *)
(* Part 6 (specification PreviewSpec): the content preview of a tree node  *)
(* (trace-tree.js, getContentPreview).                                     *)
(*                                                                         *)
(* Part 7 (specification TreeViewSpec): the trace tree view                *)
(* (trace-tree.js, renderTraceTree) with its toggles, its node clicks and  *)
(* its controller.                                                         *)
(***************************************************************************)
EXTENDS Integers, Sequences, FiniteSets, TLC

(***************************************************************************)
(* Bounds of the model.                                                    *)
(***************************************************************************)
\* number of route() calls (view instances) in a run, the initial one included
MaxViews == 2
\* number of messages the notification channel delivers in a run
MaxMessages == 2
\* length of the row sets that are enumerated in full
MaxRows == 3
\* length of the row sets that repeat one row
LongRows == 8
\* largest options.pageSize
MaxPageSize == 2
\* most events of a trace
MaxEvents == 3
\* most events of a trace shown on the timeline
MaxBars == 3
\* most event cards of a session
MaxCards == 2
\* how far the lengths of the long texts lie around MAX_LEN
Slack == 1

(***************************************************************************)
(* Program constants.                                                      *)
(***************************************************************************)
\* setTimeout delay of the dashboard refresh, ms
DashRefreshDelayMs == 5000
\* setInterval period of the dashboard cleanup poll, ms
CleanupIntervalMs == 1000
\* renderDataTable: options.pageSize when the caller gives none
DefaultPageSize == 25
\* render(): const maxVisible, the most page buttons shown at once
MaxVisible == 7
\* getContentPreview: const MAX_LEN
MAX_LEN == 120
\* extractText: the characters of old_string and new_string it shows
EditSliceLen == 40
\* The dashboard's timeout runs DashRefreshDelayMs after it was set, so
\* DashRefreshDelayMs \div CleanupIntervalMs polls of the cleanup interval run
\* before it.  A poll that finds the dashboard displayed changes nothing and a
\* poll that does not cancels the timeout, so every poll but one is a
\* stuttering step: the model counts one poll when the quotient is positive.
DashTimerTicks == IF DashRefreshDelayMs \div CleanupIntervalMs > 0 THEN 1 ELSE 0

VARIABLES
    hash,         \* location.hash, as the sequence of its path segments
    views,        \* the view instances created by route(), in creation order
    wsListeners,  \* app.js wsListeners: the subscribed views, in push order
    cleanup,      \* content._cleanup: 0 (null) or the view whose closure it holds
    content,      \* what the #content container shows, and which view wrote it
    dbVersion,    \* version of the server's data: one change per message
    rejected,     \* history: the last step was the rejection of a refresh query
    \* Part 2, one renderDataTable closure and the container it renders into
    data,         \* options.data: the rows, in the order the caller gave them
    pageSize,     \* options.pageSize
    sortKey,      \* let sortKey
    sortDir,      \* let sortDir
    searchTerm,   \* let searchTerm, a sequence of characters
    currentPage,  \* let currentPage
    dom,          \* what the last render() put into the container
    engine,       \* the algorithm of the browser's Array.prototype.sort
    \* Part 3, one renderTraceTree closure
    events,       \* the events of the trace, in the order the query gave them
    tree,         \* const roots: the forest buildTree returned
    \* Part 4, one renderTraceTimeline closure
    timelineEvents, \* the events array the caller passed
    selectedId,     \* let selectedId
    timeline,       \* what the last render() put into the container
    onSelectCalls,  \* the events the last handler passed to onSelect
    \* Part 5, one renderSessionView closure and the viewers in its cards
    sessionEvents,  \* const events
    expandedCards,  \* const expandedCards
    jsonViewers,    \* per card, the renderJsonViewer closure in its body
    \* Part 6, one tree node as renderNode writes it
    nodeEvent,      \* node.event
    preview,        \* const preview = getContentPreview(evt), as an outcome
    \* Part 7, one renderTraceTree closure
    traceTree       \* events, roots, selectedId, collapsed, what the last
                    \* render() put into the container, and the events the
                    \* last handler passed to onSelect

liveVars == <<hash, views, wsListeners, cleanup, content, dbVersion, rejected>>
tableVars == <<data, pageSize, sortKey, sortDir, searchTerm, currentPage, dom>>
treeVars == <<events, tree>>
vars ==
    <<liveVars, tableVars, engine, treeVars,
      timelineEvents, selectedId, timeline, onSelectCalls,
      sessionEvents, expandedCards, jsonViewers,
      nodeEvent, preview,
      traceTree>>

\* what a step of each part leaves alone
outsideLive ==
    <<tableVars, engine, treeVars,
      timelineEvents, selectedId, timeline, onSelectCalls,
      sessionEvents, expandedCards, jsonViewers,
      nodeEvent, preview,
      traceTree>>
outsideTable ==
    <<liveVars, engine, treeVars,
      timelineEvents, selectedId, timeline, onSelectCalls,
      sessionEvents, expandedCards, jsonViewers,
      nodeEvent, preview,
      traceTree>>
outsideTree ==
    <<liveVars, tableVars, engine,
      timelineEvents, selectedId, timeline, onSelectCalls,
      sessionEvents, expandedCards, jsonViewers,
      nodeEvent, preview,
      traceTree>>
outsideTimeline ==
    <<liveVars, tableVars, engine, treeVars,
      sessionEvents, expandedCards, jsonViewers,
      nodeEvent, preview,
      traceTree>>
outsideSession ==
    <<liveVars, tableVars, engine, treeVars,
      timelineEvents, selectedId, timeline, onSelectCalls,
      nodeEvent, preview,
      traceTree>>
outsideTreeView ==
    <<liveVars, tableVars, engine, treeVars,
      timelineEvents, selectedId, timeline, onSelectCalls,
      sessionEvents, expandedCards, jsonViewers,
      nodeEvent, preview>>
outsidePreview ==
    <<liveVars, tableVars, engine, treeVars,
      timelineEvents, selectedId, timeline, onSelectCalls,
      sessionEvents, expandedCards, jsonViewers,
      traceTree>>

(***************************************************************************)
(* Locations.  '#/' is <<>>, '#/projects/p/traces' is                      *)
(* <<"projects","p","traces">>, and so on.                                 *)
(***************************************************************************)
Hashes ==
    { <<>>,
      <<"projects", "p", "traces">>,
      <<"projects", "q", "traces">>,
      <<"projects", "p", "traces", "s">> }

\* route(): which branch of the if/else chain a hash takes
RouteKind(h) ==
    IF h = <<>> THEN "dashboard"
    ELSE IF h = <<"projects">> THEN "projects"
    ELSE IF Len(h) = 4 /\ h[1] = "projects" /\ h[3] = "traces" THEN "traceDetail"
    ELSE IF Len(h) = 3 /\ h[1] = "projects" /\ h[3] = "traces" THEN "tracesList"
    ELSE "notFound"

\* location.hash.includes('/traces') && !location.hash.match(/\/traces\/[^/]+$/)
TracesHashCheck(h) ==
    /\ \E k \in 1..Len(h) : h[k] = "traces"
    /\ ~(Len(h) >= 2 /\ h[Len(h) - 1] = "traces")

\* location.hash === '#/' || location.hash === '' || location.hash === '#'
DashHashCheck(h) == h = <<>>

(***************************************************************************)
(* View instances.                                                         *)
(***************************************************************************)
\* the local state of a render function just after route() called it
NewView(h, ver) ==
    [ hash         |-> h,
      pc           |-> "fetch",   \* awaiting the initial query
      fetchVer     |-> ver,       \* data version the initial query will return
      refreshTimer |-> FALSE,     \* the variable refreshTimer is non-null
      timers       |-> 0,         \* timeouts of this view pending in the browser
      ticksLeft    |-> 0,         \* dashboard: cleanup ticks until the timer is due
      interval     |-> FALSE,     \* dashboard: cleanupInterval is running
      queries      |-> <<>>,      \* refresh queries in flight, in issue order
      shown        |-> -1,        \* data version last rendered by this view (-1: none)
      armedLive    |-> FALSE,     \* history: the pending timer was armed while this
                                  \* view was the newest one
      coalesced    |-> FALSE,     \* history: a signal arrived while the timer
                                  \* was pending
      sigVer       |-> 0 ]        \* history: dbVersion at the last signal that
                                  \* went into the pending timer

Cur == Len(views)
Kind(i) == RouteKind(views[i].hash)

\* what route() and the synchronous head of the render function leave in #content
RouteContent(h, i) ==
    IF RouteKind(h) = "tracesList"
    THEN [owner |-> i, kind |-> "tracesSkeleton", ver |-> 0]
    ELSE [owner |-> i, kind |-> "loading", ver |-> 0]

LiveInit ==
    /\ hash \in Hashes
    /\ views = <<NewView(hash, 0)>>
    /\ wsListeners = <<>>
    /\ cleanup = 0
    /\ content = RouteContent(hash, 1)
    /\ dbVersion = 0
    /\ rejected = FALSE

(***************************************************************************)
(* The notification channel.                                               *)
(***************************************************************************)
Range(s) == {s[k] : k \in 1..Len(s)}

\* onEvent's return value: wsListeners.filter(l => l !== callback)
Unsubscribe(ls, i) == SelectSeq(ls, LAMBDA l : l /= i)

\* setTimeout(handler, delay): one more timeout pending, its handle stored
SetTimer(v, ticks, newest) ==
    [v EXCEPT !.refreshTimer = TRUE, !.timers = @ + 1, !.ticksLeft = ticks,
              !.armedLive = newest]

\* history: the signal of data version ver reached view v
Signalled(v, ver) == [v EXCEPT !.sigVer = ver, !.coalesced = v.timers > 0]

\* mutant of TracesOnEvent: the guard 'if (!refreshTimer)' is missing
TracesOnEventNoGuard(v, newest) == SetTimer(v, 0, newest)

\* renderTracesList: the callback given to onEvent
TracesOnEvent(v, newest) ==
    IF ~v.refreshTimer THEN SetTimer(v, 0, newest) ELSE v

\* renderDashboard: the callback given to onEvent
DashOnEvent(v, newest) ==
    IF v.refreshTimer THEN v ELSE SetTimer(v, DashTimerTicks, newest)

\* message payloads (e.data): one that is not JSON text and two that are
Payloads == {"not json", "{}", "[1]"}

\* JSON.parse(e.data) returns rather than throws
JsonParses(p) == p /= "not json"

\* mutant of Dispatch: the listeners run only for a message that parses to
\* an object
DispatchObjectsOnly(p, ver) ==
    IF p /= "{}" THEN views
    ELSE [i \in DOMAIN views |->
            IF i \notin Range(wsListeners) THEN views[i]
            ELSE IF Kind(i) = "dashboard"
                 THEN DashOnEvent(Signalled(views[i], ver), i = Cur)
            ELSE TracesOnEvent(Signalled(views[i], ver), i = Cur)]

\* ws.onmessage: JSON.parse(e.data), then every listener in turn; a payload
\* that does not parse throws before the first listener and is ignored
Dispatch(p, ver) ==
    IF ~JsonParses(p) THEN views
    ELSE [i \in DOMAIN views |->
            IF i \notin Range(wsListeners) THEN views[i]
            ELSE IF Kind(i) = "dashboard"
                 THEN DashOnEvent(Signalled(views[i], ver), i = Cur)
            ELSE TracesOnEvent(Signalled(views[i], ver), i = Cur)]

\* the server changes its data and broadcasts one message with payload p
WsMessage(p) ==
    /\ dbVersion < MaxMessages
    /\ dbVersion' = dbVersion + 1
    /\ views' = Dispatch(p, dbVersion + 1)
    /\ rejected' = FALSE
    /\ UNCHANGED <<hash, wsListeners, cleanup, content, outsideLive>>

(***************************************************************************)
(* The debounce timer's handler.                                           *)
(***************************************************************************)
\* mutant of IssueQuery: the handler reuses the data the view already holds
IssueQueryCached(v, ver) ==
    [v EXCEPT !.queries = Append(@, IF v.shown >= 0 THEN v.shown ELSE 0)]

\* api(path) called now, with the server's data at version ver: the request
\* in flight afterwards, named by the data its response carries if it resolves
IssueQuery(v, ver) == [v EXCEPT !.queries = Append(@, ver)]

\* mutant of TimerDone: the handler leaves refreshTimer as it is
TimerDoneKeepsHandle(v) ==
    [v EXCEPT !.timers = @ - 1, !.armedLive = FALSE, !.coalesced = FALSE,
              !.sigVer = 0]

\* the handler's first statement: refreshTimer = null (the timeout has run)
TimerDone(v) ==
    [v EXCEPT !.refreshTimer = FALSE, !.timers = @ - 1, !.armedLive = FALSE,
              !.coalesced = FALSE, !.sigVer = 0]

\* renderTracesList: the setTimeout handler, up to its await
TracesFire(v, h, ver) ==
    IF TracesHashCheck(h) THEN IssueQuery(TimerDone(v), ver) ELSE TimerDone(v)

\* renderDashboard: the setTimeout handler, up to its await
DashFire(v, h, ver) == IssueQuery(TimerDone(v), ver)

TimerFire(i) ==
    /\ views[i].timers > 0
    /\ Kind(i) = "dashboard" => views[i].ticksLeft = 0
    /\ views' = [views EXCEPT ![i] =
                    IF Kind(i) = "dashboard" THEN DashFire(@, hash, dbVersion)
                    ELSE TracesFire(@, hash, dbVersion)]
    /\ rejected' = FALSE
    /\ UNCHANGED <<hash, wsListeners, cleanup, content, dbVersion, outsideLive>>

(***************************************************************************)
(* A refresh query resolves or rejects.                                    *)
(***************************************************************************)
RemoveAt(s, k) == [j \in 1..(Len(s) - 1) |-> IF j < k THEN s[j] ELSE s[j + 1]]

\* data-table.js renderDataTable(tableContainer, ...) with fresh rows: the
\* table container of view v shows data version ver
RenderTable(v, ver) == [v EXCEPT !.shown = ver]

\* refreshTable() after its await: the k-th query of a traces list resolved
TracesRefreshOk(v, k) ==
    RenderTable([v EXCEPT !.queries = RemoveAt(@, k)], v.queries[k])

\* the dashboard handler after its await: stats assigned, and rendered by
\* render() if the location is the dashboard's (nothing else reads stats)
DashRefreshOk(v, k, h) ==
    LET w == [v EXCEPT !.queries = RemoveAt(@, k)]
    IN  IF DashHashCheck(h) THEN [w EXCEPT !.shown = v.queries[k]] ELSE w

\* mutant of RefreshFailed: a failed refresh blanks what the view shows
RefreshFailedBlanks(v, k) == [v EXCEPT !.queries = RemoveAt(@, k), !.shown = -1]

\* api() threw: the traces-list handler's promise rejects unhandled, the
\* dashboard handler's catch block is empty
RefreshFailed(v, k) == [v EXCEPT !.queries = RemoveAt(@, k)]

\* dashboard render(): container.innerHTML = html
DashContent(i, ver) == [owner |-> i, kind |-> "dashboard", ver |-> ver]

RefreshResolve(i, k) ==
    /\ views' = [views EXCEPT ![i] =
                    IF Kind(i) = "dashboard" THEN DashRefreshOk(@, k, hash)
                    ELSE TracesRefreshOk(@, k)]
    /\ content' = IF Kind(i) = "dashboard" /\ DashHashCheck(hash)
                  THEN DashContent(i, views'[i].shown) ELSE content
    /\ rejected' = FALSE
    /\ UNCHANGED <<hash, wsListeners, cleanup, dbVersion, outsideLive>>

RefreshReject(i, k) ==
    /\ views' = [views EXCEPT ![i] = RefreshFailed(@, k)]
    /\ rejected' = TRUE
    /\ UNCHANGED <<hash, wsListeners, cleanup, content, dbVersion, outsideLive>>

(***************************************************************************)
(* Teardown: the dashboard's cleanup poll and the router.                  *)
(***************************************************************************)
\* clearTimeout(refreshTimer): cancels the timeout whose handle the variable
\* holds; the variable itself keeps its value
ClearTimeout(v) ==
    IF v.refreshTimer /\ v.timers > 0
    THEN [v EXCEPT !.timers = @ - 1, !.ticksLeft = 0, !.armedLive = FALSE,
                   !.coalesced = FALSE, !.sigVer = 0]
    ELSE v

\* renderDashboard: the setInterval handler, one period of the poll
DashCleanupTick(v, h) ==
    IF ~DashHashCheck(h)
    THEN [ClearTimeout(v) EXCEPT !.interval = FALSE]
    ELSE [v EXCEPT !.ticksLeft = IF @ > 0 THEN @ - 1 ELSE 0]

\* one period of view i's poll elapses; a timeout that is due runs first
CleanupTick(i) ==
    /\ views[i].interval
    /\ ~(views[i].timers > 0 /\ views[i].ticksLeft = 0)
    /\ views' = [views EXCEPT ![i] = DashCleanupTick(@, hash)]
    /\ wsListeners' = IF ~DashHashCheck(hash) THEN Unsubscribe(wsListeners, i)
                      ELSE wsListeners
    /\ rejected' = FALSE
    /\ UNCHANGED <<hash, cleanup, content, dbVersion, outsideLive>>

\* route(): if (content._cleanup) { content._cleanup(); content._cleanup = null; }
\* where _cleanup is the traces list's () => { unsubscribe(); clearTimeout(refreshTimer); }
ViewsAfterCleanup(c) == IF c = 0 THEN views ELSE [views EXCEPT ![c] = ClearTimeout(@)]

ListenersAfterCleanup(c) == IF c = 0 THEN wsListeners ELSE Unsubscribe(wsListeners, c)

\* the user changes location.hash to h: hashchange runs route() up to the
\* first await of the render function it calls
Navigate(h) ==
    /\ Cur < MaxViews
    /\ h /= hash
    /\ hash' = h
    /\ views' = Append(ViewsAfterCleanup(cleanup), NewView(h, dbVersion))
    /\ wsListeners' = ListenersAfterCleanup(cleanup)
    /\ cleanup' = 0
    /\ content' = RouteContent(h, Cur + 1)
    /\ rejected' = FALSE
    /\ UNCHANGED <<dbVersion, outsideLive>>

(***************************************************************************)
(* The initial query of a view resolves or rejects.                        *)
(***************************************************************************)
\* renderDashboard after its first await: render(), onEvent(...), setInterval(...)
DashMounted(v) ==
    [v EXCEPT !.pc = "live", !.shown = v.fetchVer, !.fetchVer = 0,
              !.interval = TRUE]

\* renderTracesList after 'await refreshTable()': the table is rendered into
\* the view's own table container, then onEvent(...) and container._cleanup
TracesMounted(v) == [RenderTable(v, v.fetchVer) EXCEPT !.pc = "live", !.fetchVer = 0]

\* which view's cleanup closure content._cleanup holds once view i is mounted
CleanupAfterMount(i) == IF Kind(i) = "tracesList" THEN i ELSE cleanup

\* wsListeners.push(callback) by the two live views
ListenersAfterMount(i) ==
    IF Kind(i) \in {"dashboard", "tracesList"} THEN Append(wsListeners, i)
    ELSE wsListeners

\* container.innerHTML once the render function of view i has its data
ContentAfterMount(i) ==
    CASE Kind(i) = "dashboard"   -> DashContent(i, views[i].fetchVer)
      [] Kind(i) = "traceDetail" -> [owner |-> i, kind |-> "traceDetail",
                                     ver |-> views[i].fetchVer]
      [] OTHER                   -> content

\* the awaited api() of a render function resolved
FetchResolve(i) ==
    /\ views[i].pc \in {"fetch", "fetchSession"}
    /\ IF Kind(i) = "traceDetail" /\ views[i].pc = "fetch"
       THEN \* renderTraceDetail: events fetched, the session query is next
            /\ views' = [views EXCEPT ![i].pc = "fetchSession"]
            /\ UNCHANGED <<wsListeners, cleanup, content>>
       ELSE /\ views' = [views EXCEPT ![i] =
                            CASE Kind(i) = "dashboard"  -> DashMounted(@)
                              [] Kind(i) = "tracesList" -> TracesMounted(@)
                              [] OTHER                  -> [@ EXCEPT !.pc = "done", !.fetchVer = 0]]
            /\ wsListeners' = ListenersAfterMount(i)
            /\ cleanup' = CleanupAfterMount(i)
            /\ content' = ContentAfterMount(i)
    /\ rejected' = FALSE
    /\ UNCHANGED <<hash, dbVersion, outsideLive>>

\* the awaited api() threw
FetchReject(i) ==
    /\ views[i].pc \in {"fetch", "fetchSession"}
    /\ IF views[i].pc = "fetchSession"
       THEN \* renderTraceDetail: the session query's catch block is empty
            /\ views' = [views EXCEPT ![i].pc = "done", ![i].fetchVer = 0]
            /\ content' = ContentAfterMount(i)
       ELSE \* route(): catch (err) { content.innerHTML = error message }
            /\ views' = [views EXCEPT ![i].pc = "failed", ![i].fetchVer = 0]
            /\ content' = [owner |-> i, kind |-> "error", ver |-> 0]
    /\ rejected' = FALSE
    /\ UNCHANGED <<hash, wsListeners, cleanup, dbVersion, outsideLive>>

(***************************************************************************)
(* Part 2 (specification TableSpec): the data table (data-table.js,        *)
(* renderDataTable), one closure with its sort, search and page state, the *)
(* render() that every handler ends with, and the caller that builds the   *)
(* table again when it has fresh rows.                                     *)
(*                                                                         *)
(* Cell values are null, numbers and strings.  A string is the sequence of *)
(* its characters, so that String(), toLowerCase(), includes() and the     *)
(* comparison of strings are computed and not assumed.                     *)
(***************************************************************************)
Null == [t |-> "null", n |-> 0, s |-> <<>>]
Num(n) == [t |-> "number", n |-> n, s |-> <<>>]
Str(s) == [t |-> "string", n |-> 0, s |-> s]

\* two of the traces list's columns, by key
Columns == <<"source_app", "event_count">>

\* the rows the model builds its row sets from
TableRows ==
    { [source_app |-> Str(<<"A", "b">>), event_count |-> Num(9)],
      [source_app |-> Str(<<"a", "B">>), event_count |-> Num(10)],
      [source_app |-> Null,              event_count |-> Str(<<"5">>)],
      [source_app |-> Str(<<"b">>),      event_count |-> Null] }

\* the row sets: every sequence of up to MaxRows rows, and LongRows copies of
\* one row, which is more pages than render() shows buttons for
DataSets ==
    UNION {[1..n -> TableRows] : n \in 0..MaxRows}
        \cup {[k \in 1..LongRows |-> r] : r \in TableRows}

\* what the user may have in the search box
Terms == { <<>>, <<"a">>, <<"A", "B">>, <<"1">>, <<"z">> }

NoSortKey == "null"

Max(a, b) == IF a > b THEN a ELSE b
Min(a, b) == IF a < b THEN a ELSE b

DigitChar == <<"0", "1", "2", "3", "4", "5", "6", "7", "8", "9">>

\* the UTF-16 code unit of a character
CharCode(c) ==
    IF \E d \in 0..9 : DigitChar[d + 1] = c
    THEN 48 + (CHOOSE d \in 0..9 : DigitChar[d + 1] = c)
    ELSE CASE c = "A" -> 65
           [] c = "B" -> 66
           [] c = "a" -> 97
           [] c = "b" -> 98
           [] c = "z" -> 122

\* String.prototype.toLowerCase
LowerChar(c) == CASE c = "A" -> "a" [] c = "B" -> "b" [] OTHER -> c
ToLowerCase(s) == [k \in 1..Len(s) |-> LowerChar(s[k])]

\* String(n) for a natural number: its decimal digits
RECURSIVE Digits(_)
Digits(n) ==
    IF n < 10 THEN <<DigitChar[n + 1]>>
    ELSE Digits(n \div 10) \o <<DigitChar[(n % 10) + 1]>>

\* String(val) for a value that is not null
StringOf(val) == IF val.t = "number" THEN Digits(val.n) ELSE val.s

\* String.prototype.includes
Includes(s, term) ==
    \E i \in 0..(Len(s) - Len(term)) : \A j \in 1..Len(term) : s[i + j] = term[j]

\* sa < sb on strings: by code unit at the first difference, a proper prefix
\* first
StrLess(sa, sb) ==
    \E k \in 1..Len(sb) :
        /\ k - 1 <= Len(sa)
        /\ \A j \in 1..(k - 1) : sa[j] = sb[j]
        /\ (k > Len(sa) \/ CharCode(sa[k]) < CharCode(sb[k]))

\* mutant of RowMatches: the value is compared as it is written
RowMatchesCaseSensitive(row, term) ==
    \E c \in 1..Len(Columns) :
        LET val == row[Columns[c]]
        IN  val.t /= "null" /\ Includes(StringOf(val), term)

\* the test of getFilteredData's filter for one row
RowMatches(row, term) ==
    \E c \in 1..Len(Columns) :
        LET val == row[Columns[c]]
        IN  val.t /= "null" /\ Includes(ToLowerCase(StringOf(val)), term)

getFilteredData(d, term) ==
    IF term = <<>> THEN d
    ELSE SelectSeq(d, LAMBDA row : RowMatches(row, ToLowerCase(term)))

\* the comparator given to sort(): negative, zero or positive
Compare(a, b, key, dir) ==
    LET va == IF a[key].t = "null" THEN Str(<<>>) ELSE a[key]
        vb == IF b[key].t = "null" THEN Str(<<>>) ELSE b[key]
        sa == ToLowerCase(StringOf(va))
        sb == ToLowerCase(StringOf(vb))
    IN  IF va.t = "number" /\ vb.t = "number"
        THEN IF dir = "asc" THEN va.n - vb.n ELSE vb.n - va.n
        ELSE IF StrLess(sa, sb) THEN (IF dir = "asc" THEN -1 ELSE 1)
        ELSE IF StrLess(sb, sa) THEN (IF dir = "asc" THEN 1 ELSE -1)
        ELSE 0

\* one step of the insertion sort: x goes in front of the trailing run of
\* elements that compare greater than it
Insert(sorted, x, key, dir) ==
    LET greater == {j \in 1..Len(sorted) :
                       \A m \in j..Len(sorted) : Compare(sorted[m], x, key, dir) > 0}
        pos == IF greater = {} THEN Len(sorted) + 1
               ELSE CHOOSE j \in greater : \A m \in greater : j <= m
    IN  SubSeq(sorted, 1, pos - 1) \o <<x>> \o SubSeq(sorted, pos, Len(sorted))

\* Array.prototype.sort on a copy, in an engine that sorts by insertion: a
\* stable sort
RECURSIVE SortBy(_, _, _)
SortBy(s, key, dir) ==
    IF s = <<>> THEN <<>>
    ELSE Insert(SortBy(SubSeq(s, 1, Len(s) - 1), key, dir), s[Len(s)], key, dir)

\* merge of two adjacent runs: the head of the right run goes first only when
\* it compares less than the head of the left run
RECURSIVE Merge(_, _, _, _)
Merge(left, right, key, dir) ==
    IF right = <<>> THEN left
    ELSE IF left = <<>> THEN right
    ELSE IF Compare(right[1], left[1], key, dir) < 0
         THEN <<right[1]>> \o Merge(left, Tail(right), key, dir)
         ELSE <<left[1]>> \o Merge(Tail(left), right, key, dir)

\* one pass of the bottom-up merge sort: the runs of length width merged in
\* pairs
RECURSIVE MergePass(_, _, _, _)
MergePass(s, width, key, dir) ==
    IF Len(s) <= width THEN s
    ELSE Merge(SubSeq(s, 1, width), SubSeq(s, width + 1, Min(2 * width, Len(s))),
               key, dir)
             \o MergePass(SubSeq(s, 2 * width + 1, Len(s)), width, key, dir)

\* Array.prototype.sort on a copy, in an engine that sorts by bottom-up
\* merging: a stable sort
RECURSIVE MergeSort(_, _, _, _)
MergeSort(s, width, key, dir) ==
    IF width >= Len(s) THEN s
    ELSE MergeSort(MergePass(s, width, key, dir), 2 * width, key, dir)

\* The algorithm of Array.prototype.sort is the engine's.  Every engine sorts
\* stably, and all agree when the comparator is a consistent ordering of the
\* rows; when it is not, the order is implementation-defined and the two
\* algorithms here can differ.
Engines == {"insertion", "merge"}

ArraySort(s, key, dir) ==
    IF engine = "merge" THEN MergeSort(s, 1, key, dir) ELSE SortBy(s, key, dir)

getSortedData(filtered, key, dir) ==
    IF key = NoSortKey THEN filtered ELSE ArraySort(filtered, key, dir)

\* mutant of TotalPages: a page count of floor + 1
TotalPagesFloorPlusOne(n, ps) == Max(1, (n \div ps) + 1)

\* Math.max(1, Math.ceil(sorted.length / pageSize))
TotalPages(n, ps) == Max(1, (n + ps - 1) \div ps)

\* the two clamps of render(), in their order
ClampPage(page, totalPages) ==
    LET p == IF page >= totalPages THEN totalPages - 1 ELSE page
    IN  IF p < 0 THEN 0 ELSE p

\* mutant of Slice: the page runs to the end of the rows
SliceToEnd(s, start, end) == SubSeq(s, start + 1, Len(s))

\* mutant of Slice: the page takes the row at index end as well
SliceThroughEnd(s, start, end) == SubSeq(s, start + 1, Min(end + 1, Len(s)))

\* Array.prototype.slice(start, end)
Slice(s, start, end) == SubSeq(s, start + 1, Min(end, Len(s)))

\* the data-page values of the page buttons render() writes
PageButtons(page, totalPages) ==
    IF totalPages > 1
    THEN LET startPage0 == Max(0, page - (MaxVisible \div 2))
             endPage == Min(totalPages, startPage0 + MaxVisible)
             startPage == IF endPage - startPage0 < MaxVisible
                          THEN Max(0, endPage - MaxVisible)
                          ELSE startPage0
         IN  startPage..(endPage - 1)
    ELSE {}

\* render(): the page it settles on and what it writes into the container
render(d, ps, key, dir, term, page) ==
    LET filtered == getFilteredData(d, term)
        sorted == getSortedData(filtered, key, dir)
        totalPages == TotalPages(Len(sorted), ps)
        cp == ClampPage(page, totalPages)
        start == cp * ps
    IN  [currentPage |-> cp,
         dom |-> [totalPages |-> totalPages,
                  pageData |-> Slice(sorted, start, start + ps),
                  results |-> Len(sorted),
                  noData |-> Len(Slice(sorted, start, start + ps)) = 0,
                  pageBtns |-> PageButtons(cp, totalPages)]]

\* renderDataTable(container, {columns, data, pageSize}): a new closure and
\* its first render()
TableConstructed(d, ps) ==
    /\ data = d
    /\ pageSize = ps
    /\ sortKey = NoSortKey
    /\ sortDir = "asc"
    /\ searchTerm = <<>>
    /\ currentPage = render(d, ps, NoSortKey, "asc", <<>>, 0).currentPage
    /\ dom = render(d, ps, NoSortKey, "asc", <<>>, 0).dom

\* mutant of SearchInput: the handler leaves currentPage as it is
SearchInputKeepsPage(term) ==
    /\ term /= searchTerm
    /\ searchTerm' = term
    /\ UNCHANGED <<data, pageSize, sortKey, sortDir, outsideTable>>
    /\ LET r == render(data, pageSize, sortKey, sortDir, term, currentPage)
       IN  currentPage' = r.currentPage /\ dom' = r.dom

\* the 'input' handler of the search box
SearchInput(term) ==
    /\ term /= searchTerm
    /\ searchTerm' = term
    /\ UNCHANGED <<data, pageSize, sortKey, sortDir, outsideTable>>
    /\ LET r == render(data, pageSize, sortKey, sortDir, term, 0)
       IN  currentPage' = r.currentPage /\ dom' = r.dom

\* mutant of SortClick: a click on another header keeps the direction
SortClickKeepsDir(key) ==
    /\ sortKey' = key
    /\ sortDir' = IF sortKey = key
                  THEN (IF sortDir = "asc" THEN "desc" ELSE "asc")
                  ELSE sortDir
    /\ UNCHANGED <<data, pageSize, searchTerm, outsideTable>>
    /\ LET r == render(data, pageSize, sortKey', sortDir', searchTerm, currentPage)
       IN  currentPage' = r.currentPage /\ dom' = r.dom

\* the 'click' handler of a column header
SortClick(key) ==
    /\ sortKey' = key
    /\ sortDir' = IF sortKey = key
                  THEN (IF sortDir = "asc" THEN "desc" ELSE "asc")
                  ELSE "asc"
    /\ UNCHANGED <<data, pageSize, searchTerm, outsideTable>>
    /\ LET r == render(data, pageSize, sortKey', sortDir', searchTerm, currentPage)
       IN  currentPage' = r.currentPage /\ dom' = r.dom

\* a page change and the render() after it
GoToPage(page) ==
    /\ UNCHANGED <<data, pageSize, sortKey, sortDir, searchTerm, outsideTable>>
    /\ LET r == render(data, pageSize, sortKey, sortDir, searchTerm, page)
       IN  currentPage' = r.currentPage /\ dom' = r.dom

\* the 'click' handler of #dt-prev; the button exists when there is more than
\* one page and is disabled on the first
PrevClick ==
    /\ dom.totalPages > 1
    /\ currentPage /= 0
    /\ IF currentPage > 0 THEN GoToPage(currentPage - 1) ELSE UNCHANGED vars

\* the 'click' handler of #dt-next; disabled on the last page.  totalPages is
\* the constant of the render() that bound the handler
NextClick ==
    /\ dom.totalPages > 1
    /\ currentPage /= dom.totalPages - 1
    /\ IF currentPage < dom.totalPages - 1
       THEN GoToPage(currentPage + 1)
       ELSE UNCHANGED vars

\* the 'click' handler of a page button
PageClick(page) ==
    /\ page \in dom.pageBtns
    /\ GoToPage(page)

\* the rows the caller's next query returns: the rows it had with one more,
\* or with the first gone
FreshData(d) ==
    (IF Len(d) < MaxRows THEN {Append(d, r) : r \in TableRows} ELSE {})
        \cup (IF d /= <<>> THEN {Tail(d)} ELSE {})

\* refreshTable: renderDataTable again on the same container with the rows
\* the query returned
RefreshTable(d) ==
    /\ d \in FreshData(data)
    /\ data' = d
    /\ pageSize' = pageSize
    /\ sortKey' = NoSortKey
    /\ sortDir' = "asc"
    /\ searchTerm' = <<>>
    /\ UNCHANGED outsideTable
    /\ LET r == render(d, pageSize, NoSortKey, "asc", <<>>, 0)
       IN  currentPage' = r.currentPage /\ dom' = r.dom

(***************************************************************************)
(* Part 3 (specification TreeSpec): the span tree (trace-tree.js,          *)
(* buildTree) as renderTraceTree builds it from the events of a trace.     *)
(*                                                                         *)
(* A node is named by the place of its event in the input; the forest is   *)
(* the sequence of its roots and, for every node, the sequence of its      *)
(* children.                                                               *)
(***************************************************************************)
\* an absent span_id or parent_span_id: any falsy value
NoSpan == ""

\* the span ids events declare, and one more that no event declares
Spans == {"a", "b"}
ParentSpans == Spans \cup {"missing"}

\* what an event says about its span
EventShapes ==
    [span_id : Spans \cup {NoSpan}, parent_span_id : ParentSpans \cup {NoSpan}]

\* the events of a trace: up to MaxEvents events, ids unique
EventLists ==
    UNION {{[k \in 1..n |-> [id |-> k,
                             span_id |-> f[k].span_id,
                             parent_span_id |-> f[k].parent_span_id]] :
               f \in [1..n -> EventShapes]} : n \in 0..MaxEvents}

\* mutant of SpanMapGet: a later event of the span replaces the entry
SpanMapGetLast(evts, span) ==
    IF \E k \in 1..Len(evts) : evts[k].span_id /= NoSpan /\ evts[k].span_id = span
    THEN CHOOSE k \in 1..Len(evts) :
            /\ evts[k].span_id = span
            /\ \A m \in (k + 1)..Len(evts) : evts[m].span_id /= span
    ELSE 0

\* spanMap.get(span): the first event that declares the span, 0 for none
SpanMapGet(evts, span) ==
    IF \E k \in 1..Len(evts) : evts[k].span_id /= NoSpan /\ evts[k].span_id = span
    THEN CHOOSE k \in 1..Len(evts) :
            /\ evts[k].span_id = span
            /\ \A m \in 1..(k - 1) : evts[m].span_id /= span
    ELSE 0

\* nodeMap.get(id): the node set last under the id, 0 for none
NodeMapGet(evts, id) ==
    IF \E k \in 1..Len(evts) : evts[k].id = id
    THEN CHOOSE k \in 1..Len(evts) :
            /\ evts[k].id = id
            /\ \A m \in (k + 1)..Len(evts) : evts[m].id /= id
    ELSE 0

\* mutant of ParentNode: the matched event may be the event itself
ParentNodeNoSelfCheck(evts, k) ==
    LET evt == evts[k]
        parentEvt == IF evt.parent_span_id /= NoSpan
                     THEN SpanMapGet(evts, evt.parent_span_id)
                     ELSE 0
    IN  IF parentEvt /= 0 THEN NodeMapGet(evts, evts[parentEvt].id) ELSE 0

\* the node the loop of buildTree pushes node k under, 0 when it is not placed
ParentNode(evts, k) ==
    LET evt == evts[k]
        parentEvt == IF evt.parent_span_id /= NoSpan
                     THEN SpanMapGet(evts, evt.parent_span_id)
                     ELSE 0
    IN  IF parentEvt /= 0 /\ evts[parentEvt].id /= evt.id
        THEN NodeMapGet(evts, evts[parentEvt].id)
        ELSE 0

\* mutant of PushChild: the node goes in front of its siblings
PushChildFirst(children, node) == <<node>> \o children

\* parentNode.children.push(node)
PushChild(children, node) == Append(children, node)

\* mutant of PlaceNodes: 'placed' is never set, a placed node is a root too
RECURSIVE PlaceNodesNeverPlaced(_, _)
PlaceNodesNeverPlaced(evts, k) ==
    IF k = 0
    THEN [roots |-> <<>>, children |-> [i \in 1..Len(evts) |-> <<>>]]
    ELSE LET forest == PlaceNodesNeverPlaced(evts, k - 1)
             parentNode == ParentNode(evts, k)
         IN  IF parentNode /= 0
             THEN [forest EXCEPT !.children[parentNode] = PushChild(@, k),
                                 !.roots = Append(@, k)]
             ELSE [forest EXCEPT !.roots = Append(@, k)]

\* the loop 'for (const node of nodes)' after its first k rounds
RECURSIVE PlaceNodes(_, _)
PlaceNodes(evts, k) ==
    IF k = 0
    THEN [roots |-> <<>>, children |-> [i \in 1..Len(evts) |-> <<>>]]
    ELSE LET forest == PlaceNodes(evts, k - 1)
             parentNode == ParentNode(evts, k)
         IN  IF parentNode /= 0
             THEN [forest EXCEPT !.children[parentNode] = PushChild(@, k)]
             ELSE [forest EXCEPT !.roots = Append(@, k)]

buildTree(evts) == PlaceNodes(evts, Len(evts))

\* renderTraceTree(container, events, onSelect): const roots = buildTree(events)
TraceTreeRendered(evts) ==
    /\ events = evts
    /\ tree = buildTree(evts)

\* mutant of RenderTraceTree: the nodes of the last call are used again and
\* keep the children they have
RenderTraceTreeKeepsNodes ==
    /\ tree' = [roots |-> buildTree(events).roots,
                children |-> [p \in 1..Len(events) |->
                                 tree.children[p] \o buildTree(events).children[p]]]
    /\ UNCHANGED <<events, outsideTree>>

\* the Tree button of the trace detail: renderLeftPanel calls renderTraceTree
\* again on the same events
RenderTraceTree ==
    /\ tree' = buildTree(events)
    /\ UNCHANGED <<events, outsideTree>>

\* the trace is opened again after one more event was recorded
RenderTraceDetail(shape) ==
    /\ Len(events) < MaxEvents
    /\ events' = Append(events, [id |-> Len(events) + 1,
                                 span_id |-> shape.span_id,
                                 parent_span_id |-> shape.parent_span_id])
    /\ tree' = buildTree(events')
    /\ UNCHANGED outsideTree

(***************************************************************************)
(* Part 4 (specification TimelineSpec): the timeline (trace-timeline.js,   *)
(* renderTraceTimeline), one closure with its selected id and the render() *)
(* that lays the events out as bars.                                       *)
(*                                                                         *)
(* A timestamp is the number of milliseconds new Date(..).getTime() gives  *)
(* for it.  The percentages of a bar are JavaScript numbers; the model     *)
(* keeps them as exact fractions.                                          *)
(***************************************************************************)
\* evt.id: the ids of a trace are numbers, or they are strings
EventId(kind, k) == IF kind = "number" THEN Num(k) ELSE Str(Digits(k))

\* the events of a trace: up to MaxBars events, ids unique, recorded at one
\* of three instants (ms), with duration_ms absent, zero or some milliseconds
TimedEventLists ==
    LET shapes == [timestamp : {0, 10, 2000}, duration_ms : {Null, Num(0), Num(5)}]
    IN  UNION {{[k \in 1..n |-> [id |-> EventId(kind, k),
                                 timestamp |-> f[k].timestamp,
                                 duration_ms |-> f[k].duration_ms]] :
                   f \in [1..n -> shapes], kind \in {"number", "string"}} :
               n \in 0..MaxBars}

\* a JavaScript number that is the quotient of two integers, den > 0
Frac(n, d) == [num |-> n, den |-> d]
FracLeq(a, b) == a.num * b.den <= b.num * a.den

\* [...events].sort((a, b) => new Date(a.timestamp) - new Date(b.timestamp)):
\* the comparator is consistent and the sort is stable, so the last event
\* goes behind the events that are not later than it
RECURSIVE SortByTime(_)
SortByTime(evts) ==
    IF evts = <<>> THEN <<>>
    ELSE LET sorted == SortByTime(SubSeq(evts, 1, Len(evts) - 1))
             x == evts[Len(evts)]
             before == Cardinality({k \in 1..Len(sorted) :
                                       sorted[k].timestamp - x.timestamp <= 0})
         IN  SubSeq(sorted, 1, before) \o <<x>>
                 \o SubSeq(sorted, before + 1, Len(sorted))

\* evt.duration_ms || 0
DurationOrZero(evt) ==
    IF evt.duration_ms.t = "number" THEN evt.duration_ms.n ELSE 0

\* traceEnd after the first k rounds of 'for (const evt of sorted)'
RECURSIVE TraceEndAfter(_, _)
TraceEndAfter(sorted, k) ==
    IF k = 0 THEN sorted[1].timestamp
    ELSE LET traceEnd == TraceEndAfter(sorted, k - 1)
             evtTime == sorted[k].timestamp
             evtEnd == evtTime + DurationOrZero(sorted[k])
             afterEnd == IF evtEnd > traceEnd THEN evtEnd ELSE traceEnd
         IN  IF evtTime > afterEnd THEN evtTime ELSE afterEnd

\* mutant of TotalDuration: the difference as it is
TotalDurationNoFloor(traceStart, traceEnd) == traceEnd - traceStart

\* Math.max(traceEnd - traceStart, 1)
TotalDuration(traceStart, traceEnd) == Max(traceEnd - traceStart, 1)

\* mutant of LeftPct: measured from the epoch
LeftPctFromEpoch(evtTime, traceStart, totalDuration) ==
    Frac(evtTime * 100, totalDuration)

\* ((evtTime - traceStart) / totalDuration) * 100
LeftPct(evtTime, traceStart, totalDuration) ==
    Frac((evtTime - traceStart) * 100, totalDuration)

\* Math.max((duration / totalDuration) * 100, 0.5)
WidthPct(duration, totalDuration) ==
    LET share == Frac(duration * 100, totalDuration)
        least == Frac(1, 2)
    IN  IF FracLeq(share, least) THEN least ELSE share

\* render() of renderTraceTimeline: what it writes into the container
renderTimeline(evts, selId) ==
    IF Len(evts) = 0
    THEN [empty |-> TRUE, traceStart |-> 0, traceEnd |-> 0,
          totalDuration |-> 0, rows |-> <<>>]
    ELSE LET sorted == SortByTime(evts)
             traceStart == sorted[1].timestamp
             traceEnd == TraceEndAfter(sorted, Len(sorted))
             totalDuration == TotalDuration(traceStart, traceEnd)
         IN  [empty |-> FALSE, traceStart |-> traceStart, traceEnd |-> traceEnd,
              totalDuration |-> totalDuration,
              rows |-> [k \in 1..Len(sorted) |->
                  [id |-> sorted[k].id,
                   leftPct |-> LeftPct(sorted[k].timestamp, traceStart, totalDuration),
                   widthPct |-> WidthPct(DurationOrZero(sorted[k]), totalDuration),
                   selected |-> sorted[k].id = selId]]]

\* renderTraceTimeline(container, events, onSelect)
TimelineRendered(evts) ==
    /\ timelineEvents = evts
    /\ selectedId = Null
    /\ timeline = renderTimeline(evts, Null)
    /\ onSelectCalls = <<>>

\* row.getAttribute('data-event-id'): the id as the markup holds it
DataEventId(id) == Str(StringOf(id))

\* a click on the r-th row of the timeline
\* const evt = events.find(e => e.id === id); if (evt && onSelect) onSelect(evt)
RowClick(r) ==
    /\ r \in 1..Len(timeline.rows)
    /\ LET id == DataEventId(timeline.rows[r].id)
           found == {k \in 1..Len(timelineEvents) : timelineEvents[k].id = id}
       IN  /\ selectedId' = id
           /\ onSelectCalls' =
                  IF found = {} THEN <<>>
                  ELSE <<timelineEvents[CHOOSE k \in found : \A m \in found : k <= m]>>
           /\ timeline' = renderTimeline(timelineEvents, id)
    /\ UNCHANGED <<timelineEvents, outsideTimeline>>

\* controller.selectEvent(eventId)
SelectEvent(eventId) ==
    /\ selectedId' = eventId
    /\ onSelectCalls' = <<>>
    /\ timeline' = renderTimeline(timelineEvents, eventId)
    /\ UNCHANGED <<timelineEvents, outsideTimeline>>

\* mutant of Refresh: render() sorts the caller's array in place
RefreshSortsInPlace ==
    /\ timelineEvents' = SortByTime(timelineEvents)
    /\ onSelectCalls' = <<>>
    /\ timeline' = renderTimeline(timelineEvents', selectedId)
    /\ UNCHANGED <<selectedId, outsideTimeline>>

\* controller.refresh()
Refresh ==
    /\ onSelectCalls' = <<>>
    /\ timeline' = renderTimeline(timelineEvents, selectedId)
    /\ UNCHANGED <<timelineEvents, selectedId, outsideTimeline>>

(***************************************************************************)
(* Part 5 (specification SessionSpec): the session view (session-view.js,  *)
(* renderSessionView), its set of expanded cards and, in the body of every *)
(* expanded card, a JSON viewer (trace-detail.js, renderJsonViewer) with   *)
(* its set of collapsed paths.                                             *)
(*                                                                         *)
(* A JSON value is given by its composite nodes, the non-empty objects and *)
(* arrays in it; a node is named by its address, the sequence of keys and  *)
(* indices that lead to it from the root.  A path is the string the viewer *)
(* builds for a node, a sequence of characters.                            *)
(***************************************************************************)
\* what an event carries as input and output: nothing (null), or one of
\*   {"a": {"b": {"y": 2}}, "a.b": {"x": 1}},  {"a": [{"x": 1}]},  {"x": 1}
SessionShapes ==
    LET none == [present |-> FALSE, composites |-> {}]
        dottedKey == [present |-> TRUE,
                      composites |-> { <<>>,
                                       <<Str(<<"a">>)>>,
                                       <<Str(<<"a">>), Str(<<"b">>)>>,
                                       <<Str(<<"a", ".", "b">>)>> }]
        array == [present |-> TRUE,
                  composites |-> { <<>>, <<Str(<<"a">>)>>, <<Str(<<"a">>), Num(0)>> }]
        flat == [present |-> TRUE, composites |-> { <<>> }]
    IN  { [input |-> dottedKey, output |-> none],
          [input |-> array,     output |-> flat],
          [input |-> none,      output |-> flat],
          [input |-> none,      output |-> none] }

\* the events of a session: up to MaxCards events, ids unique
SessionEventLists ==
    UNION {{[k \in 1..n |-> [id |-> EventId(kind, k),
                             input |-> f[k].input,
                             output |-> f[k].output]] :
               f \in [1..n -> SessionShapes], kind \in {"number", "string"}} :
           n \in 0..MaxCards}

\* renderValue: childPath = `${path}.${key}` or `${path}[${i}]`, from '$'
RECURSIVE PathOf(_)
PathOf(addr) ==
    IF addr = <<>> THEN <<"$">>
    ELSE LET seg == addr[Len(addr)]
             path == PathOf(SubSeq(addr, 1, Len(addr) - 1))
         IN  IF seg.t = "string"
             THEN path \o <<".">> \o seg.s
             ELSE path \o <<"[">> \o Digits(seg.n) \o <<"]">>

\* const tabData; Object.keys(tabData)
TabKeys(evt) ==
    SelectSeq(<<"input", "output">>, LAMBDA key : evt[key].present)

\* render() of renderSessionView: the viewers in the bodies of the cards
renderSession(evts, expanded) ==
    [k \in 1..Len(evts) |->
        IF evts[k].id \in expanded /\ TabKeys(evts[k]) /= <<>>
        THEN \* renderJsonViewer: const collapsed = new Set(); render()
             [shown |-> TRUE, tab |-> TabKeys(evts[k])[1], collapsed |-> {}]
        ELSE [shown |-> FALSE, tab |-> "", collapsed |-> {}]]

\* renderSessionView(container, projectId, sessionId), after its queries
SessionRendered(evts) ==
    /\ sessionEvents = evts
    /\ expandedCards = {}
    /\ jsonViewers = renderSession(evts, {})

\* a click on the header of the k-th card
CardClick(k) ==
    /\ k \in 1..Len(sessionEvents)
    /\ LET evtId == DataEventId(sessionEvents[k].id)
       IN  expandedCards' = IF evtId \in expandedCards
                            THEN expandedCards \ {evtId}
                            ELSE expandedCards \cup {evtId}
    /\ jsonViewers' = renderSession(sessionEvents, expandedCards')
    /\ UNCHANGED <<sessionEvents, outsideSession>>

\* a click on a tab of the k-th card
TabClick(k, tab) ==
    /\ k \in 1..Len(sessionEvents)
    /\ jsonViewers[k].shown
    /\ tab \in Range(TabKeys(sessionEvents[k]))
    /\ jsonViewers' = [jsonViewers EXCEPT
                          ![k] = [shown |-> TRUE, tab |-> tab, collapsed |-> {}]]
    /\ UNCHANGED <<sessionEvents, expandedCards, outsideSession>>

\* the composite nodes of the value the viewer of the k-th card shows
CompositesIn(k) ==
    IF jsonViewers[k].shown
    THEN sessionEvents[k][jsonViewers[k].tab].composites
    ELSE {}

\* a click on the toggle of a node in the viewer of the k-th card
\* if (collapsed.has(path)) collapsed.delete(path) else collapsed.add(path)
JsonToggleClick(k, addr) ==
    /\ k \in 1..Len(sessionEvents)
    /\ addr \in CompositesIn(k)
    \* renderValue reaches the node and writes its toggle: none of the nodes
    \* it passes through before is rendered collapsed
    /\ \A n \in 0..(Len(addr) - 1) :
          PathOf(SubSeq(addr, 1, n)) \notin jsonViewers[k].collapsed
    /\ LET path == PathOf(addr)
       IN  jsonViewers' = [jsonViewers EXCEPT
                              ![k].collapsed = IF path \in @ THEN @ \ {path}
                                               ELSE @ \cup {path}]
    /\ UNCHANGED <<sessionEvents, expandedCards, outsideSession>>

(***************************************************************************)
(* Part 6 (specification PreviewSpec): the preview of an event in its tree *)
(* node (trace-tree.js, getContentPreview with truncate and extractText).  *)
(*                                                                         *)
(* A value is null (also for undefined), a number, a boolean, a string or  *)
(* an object; an object that is the value of a field carries its           *)
(* JSON.stringify text.  A payload (evt.input, evt.output, evt.metadata)   *)
(* is absent, an object, or a string: the JSON text of an object, the JSON *)
(* text of a string, or text that is not JSON.  An outcome is what a call  *)
(* ends with: a returned value or a thrown error.                          *)
(***************************************************************************)
Return(val) == [threw |-> FALSE, val |-> val]
Throw == [threw |-> TRUE, val |-> Null]

\* the characters \s matches
Whitespace == {" ", "\n", "\t"}

\* the texts of the model, short ones and those of a length around MAX_LEN:
\* plain, with whitespace in front, with whitespace behind, and with a run
\* of whitespace inside
Texts ==
    LET lengths == {1} \cup ((MAX_LEN - Slack)..(MAX_LEN + Slack))
        xs(n) == [k \in 1..n |-> "x"]
    IN  {xs(n) : n \in lengths}
            \cup {<<" ">> \o xs(n) : n \in lengths}
            \cup {xs(n) \o <<" ">> : n \in lengths}
            \cup {<<"a", " ", "\n", "\t", "b">> \o xs(n) : n \in lengths}

\* Boolean(val), the test of if (val), val && .., val || ..
Truthy(val) ==
    CASE val.t = "null" -> FALSE
      [] val.t = "number" -> val.n /= 0
      [] val.t = "boolean" -> val.n = 1
      [] val.t = "string" -> val.s /= <<>>
      [] val.t = "object" -> TRUE

\* String(val)
JsString(val) ==
    CASE val.t = "null" -> <<"n", "u", "l", "l">>
      [] val.t = "number" -> Digits(val.n)
      [] val.t = "boolean" -> IF val.n = 1 THEN <<"t", "r", "u", "e">>
                              ELSE <<"f", "a", "l", "s", "e">>
      [] val.t = "string" -> val.s
      [] val.t = "object" -> <<"[", "o", "b", "j", "e", "c", "t", " ",
                               "O", "b", "j", "e", "c", "t", "]">>

\* s.replace(/\s+/g, ' ')
CollapseWhitespace(s) ==
    LET kept == SelectSeq([i \in 1..Len(s) |-> i],
                          LAMBDA i : \/ s[i] \notin Whitespace
                                     \/ i = 1
                                     \/ s[i - 1] \notin Whitespace)
    IN  [k \in 1..Len(kept) |->
            IF s[kept[k]] \in Whitespace THEN " " ELSE s[kept[k]]]

\* s.trim()
Trim(s) ==
    LET inked == {i \in 1..Len(s) : s[i] \notin Whitespace}
    IN  IF inked = {} THEN <<>>
        ELSE SubSeq(s, CHOOSE i \in inked : \A j \in inked : i <= j,
                       CHOOSE i \in inked : \A j \in inked : j <= i)

\* s.slice(0, n)
SliceFront(s, n) == SubSeq(s, 1, Min(n, Len(s)))

\* mutant of truncate: the text is cut before its whitespace is collapsed
truncateBeforeCollapse(val) ==
    IF ~Truthy(val) THEN <<>>
    ELSE LET s == JsString(val)
             cut == IF Len(s) > MAX_LEN
                    THEN SliceFront(s, MAX_LEN) \o <<".", ".", ".">>
                    ELSE s
         IN  Trim(CollapseWhitespace(cut))

\* truncate(s) of getContentPreview
truncate(val) ==
    IF ~Truthy(val) THEN <<>>
    ELSE LET s == Trim(CollapseWhitespace(JsString(val)))
         IN  IF Len(s) > MAX_LEN
             THEN SliceFront(s, MAX_LEN) \o <<".", ".", ".">>
             ELSE s

\* payloads, as the event holds them: an object, or by form
\*   absent      undefined or null
\*   json        a string, the JSON text of the object of these keys and values
\*   jsonstring  a string, the JSON text of the string text
\*   text        a string that is not JSON
Object(keys, vals) == [form |-> "object", text |-> <<>>, keys |-> keys, vals |-> vals]
Payload(form, text) == [form |-> form, text |-> text, keys |-> <<>>, vals |-> <<>>]

\* typeof x === 'string' ? JSON.parse(x) : x
\* the data is undefined, a string or an object; JSON.parse throws on text
\* that is not JSON
Parsed(payload) ==
    CASE payload.form = "json" ->
            [threw |-> FALSE, val |-> [payload EXCEPT !.form = "object"]]
      [] payload.form = "jsonstring" ->
            [threw |-> FALSE, val |-> [payload EXCEPT !.form = "string"]]
      [] payload.form = "text" ->
            [threw |-> TRUE, val |-> Payload("undefined", <<>>)]
      [] payload.form = "object" ->
            [threw |-> FALSE, val |-> payload]
      [] payload.form = "absent" ->
            [threw |-> FALSE, val |-> Payload("undefined", <<>>)]

\* Boolean(data) of parsed data
DataTruthy(parsed) ==
    CASE parsed.form = "undefined" -> FALSE
      [] parsed.form = "string" -> parsed.text /= <<>>
      [] parsed.form = "object" -> TRUE

\* data[key], null for undefined
Get(parsed, key) ==
    IF parsed.form = "object" /\ \E i \in 1..Len(parsed.keys) : parsed.keys[i] = key
    THEN parsed.vals[CHOOSE i \in 1..Len(parsed.keys) : parsed.keys[i] = key]
    ELSE Null

\* a || b
Or(a, b) == IF Truthy(a) THEN a ELSE b

\* meta && meta[key]
MetaField(meta, key) == IF DataTruthy(meta) THEN Get(meta, key) ELSE Null

\* the value of the first of the keys that is truthy in data, null for none
FirstField(parsed, keys) ==
    IF \E i \in 1..Len(keys) : Truthy(Get(parsed, keys[i]))
    THEN Get(parsed, keys[CHOOSE i \in 1..Len(keys) :
                           /\ Truthy(Get(parsed, keys[i]))
                           /\ \A j \in 1..(i - 1) : ~Truthy(Get(parsed, keys[j]))])
    ELSE Null

\* `"${data.old_string.slice(0, 40)}" -> "${(data.new_string || '').slice(0, 40)}"`
\* the arrow is the one character U+2192
EditPreview(old, new) ==
    LET replacement == Or(new, Str(<<>>))
    IN  IF old.t /= "string" \/ replacement.t /= "string"
        THEN Throw
        ELSE Return(Str(<<"\"">> \o SliceFront(old.s, EditSliceLen)
                          \o <<"\"", " ", "U+2192", " ", "\"">>
                          \o SliceFront(replacement.s, EditSliceLen) \o <<"\"">>))

\* extractText(data) of getContentPreview
extractText(parsed) ==
    IF ~DataTruthy(parsed) THEN Return(Str(<<>>))
    ELSE IF parsed.form = "string" THEN Return(Str(parsed.text))
    ELSE LET named == FirstField(parsed, <<"prompt", "message">>)
             contentVal == Get(parsed, "content")
             tool == FirstField(parsed, <<"file_path", "command", "pattern", "query", "url">>)
             old == Get(parsed, "old_string")
             description == Get(parsed, "description")
         IN  IF Truthy(named) THEN Return(named)
             ELSE IF Truthy(contentVal)
                  THEN Return(CASE contentVal.t = "string" -> contentVal
                                [] contentVal.t = "object" -> Str(contentVal.s)
                                [] OTHER -> Str(JsString(contentVal)))
             ELSE IF Truthy(tool) THEN Return(tool)
             ELSE IF Truthy(old) THEN EditPreview(old, Get(parsed, "new_string"))
             ELSE IF Truthy(description) THEN Return(description)
             ELSE IF Len(parsed.keys) = 0 THEN Return(Str(<<>>))
             ELSE IF parsed.vals[1].t = "string" THEN Return(parsed.vals[1])
             ELSE Return(Str(<<>>))

\* return truncate(val)
Truncated(val) == Return(Str(truncate(val)))

\* the switch on evt.event_type
PreviewOfType(evt, input, output, meta) ==
    CASE evt.event_type = "UserPromptSubmit" ->
            LET text == extractText(input)
                prompt == Or(Or(text.val, MetaField(meta, "prompt")), Str(<<>>))
            IN  IF text.threw THEN Throw
                ELSE IF Truthy(prompt) THEN Truncated(prompt)
                ELSE Return(Str(<<>>))
      [] evt.event_type = "PreToolUse" ->
            LET text == extractText(input)
            IN  IF text.threw THEN Throw ELSE Truncated(text.val)
      [] evt.event_type = "PostToolUse" ->
            \* if (text) ..; if (typeof output === 'string') output.split('\n')[0]
            LET text == extractText(output)
                s == output.text
                breaks == {i \in 1..Len(s) : s[i] = "\n"}
                firstLine ==
                    IF breaks = {} THEN s
                    ELSE SubSeq(s, 1, (CHOOSE i \in breaks : \A j \in breaks : i <= j) - 1)
            IN  IF text.threw THEN Throw
                ELSE IF Truthy(text.val) THEN Truncated(text.val)
                ELSE IF output.form = "string" THEN Truncated(Str(firstLine))
                ELSE Return(Str(<<>>))
      [] evt.event_type = "PostToolUseFailure" ->
            IF Truthy(MetaField(meta, "error"))
            THEN Truncated(MetaField(meta, "error"))
            ELSE LET text == extractText(output)
                 IN  IF text.threw THEN Throw
                     ELSE Truncated(Or(text.val, Str(<<"E", "r", "r", "o", "r">>)))
      [] evt.event_type = "Notification" ->
            Truncated(Or(Or(MetaField(meta, "message"), MetaField(meta, "title")),
                         Str(<<>>)))
      [] evt.event_type = "PermissionRequest" ->
            LET tool == Or(Or(MetaField(meta, "tool_name"), evt.name), Str(<<>>))
                text == extractText(input)
            IN  IF text.threw THEN Throw
                ELSE IF Truthy(tool)
                     THEN Truncated(Str(JsString(tool) \o <<":", " ">> \o JsString(text.val)))
                     ELSE Truncated(text.val)
      [] evt.event_type \in {"SubagentStart", "SubagentStop"} ->
            LET agentType == Or(MetaField(meta, "agent_type"), Str(<<>>))
            IN  IF Truthy(agentType) THEN Truncated(agentType) ELSE Return(Str(<<>>))
      [] evt.event_type = "SessionStart" ->
            \* [source, model].filter(Boolean).join(' · '), the dot the one
            \* character U+00B7
            LET source == Or(MetaField(meta, "source"), Str(<<>>))
                model == Or(MetaField(meta, "model"), Str(<<>>))
            IN  Truncated(Str(
                    IF Truthy(source) /\ Truthy(model)
                    THEN JsString(source) \o <<" ", "U+00B7", " ">> \o JsString(model)
                    ELSE IF Truthy(source) THEN JsString(source)
                    ELSE IF Truthy(model) THEN JsString(model)
                    ELSE <<>>))
      [] evt.event_type = "SessionEnd" ->
            Truncated(Or(MetaField(meta, "reason"), Str(<<>>)))
      [] evt.event_type = "Stop" -> Return(Str(<<>>))
      [] evt.event_type = "PreCompact" ->
            Truncated(Or(MetaField(meta, "trigger"), Str(<<>>)))
      [] OTHER -> Return(Str(<<>>))

\* mutant of Caught: the error leaves the function
Uncaught(outcome) == outcome

\* try { .. } catch { return ''; }
Caught(outcome) == IF outcome.threw THEN Return(Str(<<>>)) ELSE outcome

\* getContentPreview(evt): the three payloads are parsed, then the switch
getContentPreview(evt) ==
    LET input == Parsed(evt.input)
        output == Parsed(evt.output)
        meta == Parsed(evt.metadata)
    IN  Caught(IF input.threw \/ output.threw \/ meta.threw THEN Throw
               ELSE PreviewOfType(evt, input.val, output.val, meta.val))

\* the events of the model: the event types the switch names and one it
\* does not, with payloads of every form
PreviewEvents ==
    LET notJson == <<"n", "o", " ", "j", "s", "o", "n">>
        twoLines == <<"l", "1", "\n", "l", "2">>
        inputs ==
            {Object(<<"prompt">>, <<Str(text)>>) : text \in Texts}
                \cup { Payload("absent", <<>>),
                       Payload("text", notJson),
                       Payload("jsonstring", <<"h", "i">>),
                       [Object(<<"command">>, <<Str(<<"l", "s">>)>>) EXCEPT !.form = "json"],
                       Object(<<"prompt">>, <<Num(7)>>),
                       Object(<<"content">>,
                              <<[t |-> "object", n |-> 0,
                                 s |-> <<"{", "\"", "k", "\"", ":", "1", "}">>]>>),
                       Object(<<"old_string", "new_string">>, <<Str(<<"a", "b">>), Null>>),
                       Object(<<"old_string">>, <<Num(5)>>),
                       Object(<<"other">>, <<Str(<<"v">>)>>),
                       Object(<<"count", "label">>, <<Num(3), Str(<<"v">>)>>),
                       Object(<<>>, <<>>) }
        outputs ==
            { Payload("absent", <<>>),
              Payload("text", twoLines),
              Payload("jsonstring", twoLines),
              Payload("jsonstring", <<>>),
              Object(<<"content">>, <<Str(<<"o", "k">>)>>) }
        metadatas ==
            { Payload("absent", <<>>),
              Payload("text", notJson),
              Object(<<"prompt", "error", "message", "title", "tool_name",
                       "agent_type", "source", "model", "reason", "trigger">>,
                     <<Str(<<"p">>), Str(<<"e", " ", " ", "r">>), Str(<<"m">>),
                       Str(<<"t">>), Str(<<"R", "e", "a", "d">>), Str(<<"g">>),
                       Str(<<"s">>), Str(<<"o">>), Str(<<"r">>), Str(<<"a", "\n">>)>>),
              Object(<<"error", "title", "source", "model">>,
                     <<[t |-> "object", n |-> 0, s |-> <<"{", "}">>], Num(4), Num(0),
                       [t |-> "boolean", n |-> 1, s |-> <<>>]>>) }
    IN  [event_type : {"UserPromptSubmit", "PreToolUse", "PostToolUse",
                       "PostToolUseFailure", "Notification", "PermissionRequest",
                       "SubagentStart", "SubagentStop", "SessionStart",
                       "SessionEnd", "Stop", "PreCompact", "Custom"},
         name : {Null, Str(<<"B", "a", "s", "h">>)},
         input : inputs,
         output : outputs,
         metadata : metadatas]

\* a node of the tree, before renderNode reaches it: no preview computed yet
NodeCreated(evt) ==
    /\ nodeEvent = evt
    /\ preview = Return([t |-> "pending", n |-> 0, s |-> <<>>])

\* renderNode(node, depth): const preview = getContentPreview(evt)
RenderNode ==
    /\ preview' = getContentPreview(nodeEvent)
    /\ UNCHANGED <<nodeEvent, outsidePreview>>

(***************************************************************************)
(* Part 7 (specification TreeViewSpec): the trace tree view (trace-tree.js, *)
(* renderTraceTree): the forest of its events, the selected id, the set of *)
(* collapsed ids, and the tree nodes render() writes.                      *)
(*                                                                         *)
(* The ids of the events are numbers or strings; an id read back from the  *)
(* markup with getAttribute is a string.                                   *)
(***************************************************************************)
\* render() of renderTraceTree: the .tree-node elements in document order,
\* each with the class of its toggle and whether it has the class 'selected'
renderTree(evts, roots, selId, collapsed) ==
    LET RECURSIVE renderNodes(_, _)
        \* renderNode(node, depth) for the nodes of a list, one after another
        renderNodes(nodes, depth) ==
            IF nodes = <<>> THEN <<>>
            ELSE LET node == Head(nodes)
                     evt == evts[node]
                     hasChildren == Len(roots.children[node]) > 0
                     isCollapsed == evt.id \in collapsed
                     isSelected == evt.id = selId
                     toggleClass == IF hasChildren
                                    THEN (IF isCollapsed THEN "" ELSE "expanded")
                                    ELSE "hidden"
                 IN  <<[node |-> node, id |-> evt.id, depth |-> depth,
                        toggle |-> toggleClass, selected |-> isSelected]>>
                       \o (IF hasChildren /\ ~isCollapsed
                           THEN renderNodes(roots.children[node], depth + 1)
                           ELSE <<>>)
                       \o renderNodes(Tail(nodes), depth)
    IN  renderNodes(roots.roots, 0)

\* renderTraceTree(container, events, onSelect)
renderTraceTree(evts) ==
    LET roots == buildTree(evts)
    IN  [events |-> evts,
         roots |-> roots,
         selectedId |-> Null,
         collapsed |-> {},
         html |-> renderTree(evts, roots, Null, {}),
         onSelectCalls |-> <<>>]

\* a click on the toggle of the r-th tree node
ToggleClick(r) ==
    /\ r \in 1..Len(traceTree.html)
    /\ traceTree.html[r].toggle /= "hidden"
    /\ LET id == DataEventId(traceTree.html[r].id)
           collapsed == IF id \in traceTree.collapsed
                        THEN traceTree.collapsed \ {id}
                        ELSE traceTree.collapsed \cup {id}
       IN  traceTree' = [traceTree EXCEPT
                            !.collapsed = collapsed,
                            !.html = renderTree(traceTree.events, traceTree.roots,
                                                traceTree.selectedId, collapsed),
                            !.onSelectCalls = <<>>]
    /\ UNCHANGED outsideTreeView

\* a click on the r-th tree node
\* const evt = events.find(e => e.id === id); if (evt && onSelect) onSelect(evt)
NodeClick(r) ==
    /\ r \in 1..Len(traceTree.html)
    /\ LET id == DataEventId(traceTree.html[r].id)
           evts == traceTree.events
           found == {k \in 1..Len(evts) : evts[k].id = id}
       IN  traceTree' = [traceTree EXCEPT
                            !.selectedId = id,
                            !.html = renderTree(evts, traceTree.roots, id,
                                                traceTree.collapsed),
                            !.onSelectCalls =
                                IF found = {} THEN <<>>
                                ELSE <<evts[CHOOSE k \in found :
                                               \A m \in found : k <= m]>>]
    /\ UNCHANGED outsideTreeView

\* controller.selectEvent(eventId) of the tree
TreeSelectEvent(eventId) ==
    /\ traceTree' = [traceTree EXCEPT
                        !.selectedId = eventId,
                        !.html = renderTree(traceTree.events, traceTree.roots,
                                            eventId, traceTree.collapsed),
                        !.onSelectCalls = <<>>]
    /\ UNCHANGED outsideTreeView

\* controller.refresh() of the tree
TreeRefresh ==
    /\ traceTree' = [traceTree EXCEPT
                        !.html = renderTree(traceTree.events, traceTree.roots,
                                            traceTree.selectedId, traceTree.collapsed),
                        !.onSelectCalls = <<>>]
    /\ UNCHANGED outsideTreeView

(***************************************************************************)
(* The specifications.  Each takes the steps of its part and holds the     *)
(* other parts in the state they have before anything is shown.            *)
(***************************************************************************)
\* no table on the page: the closure of an empty row set
NoTable == TableConstructed(<<>>, DefaultPageSize) /\ engine = "insertion"

\* the page as init() leaves it at '#/'
NoNavigation ==
    /\ hash = <<>>
    /\ views = <<NewView(<<>>, 0)>>
    /\ wsListeners = <<>>
    /\ cleanup = 0
    /\ content = RouteContent(<<>>, 1)
    /\ dbVersion = 0
    /\ rejected = FALSE

\* no trace on the page: the tree of no events
NoTrace == TraceTreeRendered(<<>>)

\* no node on the page
NoNode == NodeCreated([event_type |-> "Custom", name |-> Null,
                       input |-> Payload("absent", <<>>),
                       output |-> Payload("absent", <<>>),
                       metadata |-> Payload("absent", <<>>)])

Init ==
    /\ LiveInit
    /\ NoTable
    /\ NoTrace
    /\ TimelineRendered(<<>>)
    /\ SessionRendered(<<>>)
    /\ NoNode
    /\ traceTree = renderTraceTree(<<>>)

Next ==
    \/ \E h \in Hashes : Navigate(h)
    \/ \E i \in DOMAIN views : FetchResolve(i)
    \/ \E i \in DOMAIN views : FetchReject(i)
    \/ \E p \in Payloads : WsMessage(p)
    \/ \E i \in DOMAIN views : TimerFire(i)
    \/ \E i \in DOMAIN views : CleanupTick(i)
    \/ \E i \in DOMAIN views : \E k \in 1..Len(views[i].queries) : RefreshResolve(i, k)
    \/ \E i \in DOMAIN views : \E k \in 1..Len(views[i].queries) : RefreshReject(i, k)

Spec == Init /\ [][Next]_vars

\* the steps of a session in which no hashchange occurs: the page opened
\* first stays displayed
StayNext ==
    \/ \E i \in DOMAIN views : FetchResolve(i)
    \/ \E i \in DOMAIN views : FetchReject(i)
    \/ \E p \in Payloads : WsMessage(p)
    \/ \E i \in DOMAIN views : TimerFire(i)
    \/ \E i \in DOMAIN views : CleanupTick(i)
    \/ \E i \in DOMAIN views : \E k \in 1..Len(views[i].queries) : RefreshResolve(i, k)
    \/ \E i \in DOMAIN views : \E k \in 1..Len(views[i].queries) : RefreshReject(i, k)

\* the browser runs a timeout that is due and every period of an interval
FairSpec ==
    /\ Init
    /\ [][StayNext]_vars
    /\ \A i \in 1..MaxViews :
          /\ WF_vars(i \in DOMAIN views /\ TimerFire(i))
          /\ WF_vars(i \in DOMAIN views /\ CleanupTick(i))

TableInit ==
    /\ \E d \in DataSets : \E ps \in 1..MaxPageSize : TableConstructed(d, ps)
    /\ engine \in Engines
    /\ NoNavigation
    /\ NoTrace
    /\ TimelineRendered(<<>>)
    /\ SessionRendered(<<>>)
    /\ NoNode
    /\ traceTree = renderTraceTree(<<>>)

TableNext ==
    \/ \E term \in Terms : SearchInput(term)
    \/ \E c \in 1..Len(Columns) : SortClick(Columns[c])
    \/ PrevClick
    \/ NextClick
    \/ \E page \in dom.pageBtns : PageClick(page)
    \/ \E d \in FreshData(data) : RefreshTable(d)

TableSpec == TableInit /\ [][TableNext]_vars

TreeInit ==
    /\ \E evts \in EventLists : TraceTreeRendered(evts)
    /\ NoNavigation
    /\ NoTable
    /\ TimelineRendered(<<>>)
    /\ SessionRendered(<<>>)
    /\ NoNode
    /\ traceTree = renderTraceTree(<<>>)

TreeNext ==
    \/ RenderTraceTree
    \/ \E shape \in EventShapes : RenderTraceDetail(shape)

TreeSpec == TreeInit /\ [][TreeNext]_vars

TimelineInit ==
    /\ \E evts \in TimedEventLists : TimelineRendered(evts)
    /\ NoNavigation
    /\ NoTable
    /\ NoTrace
    /\ SessionRendered(<<>>)
    /\ NoNode
    /\ traceTree = renderTraceTree(<<>>)

TimelineNext ==
    \/ \E r \in 1..Len(timeline.rows) : RowClick(r)
    \/ \E k \in 1..Len(timelineEvents) : SelectEvent(timelineEvents[k].id)
    \/ Refresh

TimelineSpec == TimelineInit /\ [][TimelineNext]_vars

SessionInit ==
    /\ \E evts \in SessionEventLists : SessionRendered(evts)
    /\ NoNavigation
    /\ NoTable
    /\ NoTrace
    /\ TimelineRendered(<<>>)
    /\ NoNode
    /\ traceTree = renderTraceTree(<<>>)

SessionNext ==
    \/ \E k \in 1..Len(sessionEvents) : CardClick(k)
    \/ \E k \in 1..Len(sessionEvents) : \E tab \in {"input", "output"} : TabClick(k, tab)
    \/ \E k \in 1..Len(sessionEvents) : \E addr \in CompositesIn(k) : JsonToggleClick(k, addr)

SessionSpec == SessionInit /\ [][SessionNext]_vars

PreviewInit ==
    /\ \E evt \in PreviewEvents : NodeCreated(evt)
    /\ NoNavigation
    /\ NoTable
    /\ NoTrace
    /\ TimelineRendered(<<>>)
    /\ SessionRendered(<<>>)
    /\ traceTree = renderTraceTree(<<>>)

PreviewNext == RenderNode

PreviewSpec == PreviewInit /\ [][PreviewNext]_vars

\* the traces the view is opened on: up to MaxEvents events of two spans,
\* each without a parent or under one of the spans, with ids that are all
\* numbers or all strings
TreeViewInit ==
    /\ \E n \in 0..MaxEvents, kind \in {"number", "string"} :
          \E f \in [1..n -> [span_id : Spans, parent_span_id : Spans \cup {NoSpan}]] :
              traceTree = renderTraceTree([k \in 1..n |->
                                              [id |-> EventId(kind, k),
                                               span_id |-> f[k].span_id,
                                               parent_span_id |-> f[k].parent_span_id]])
    /\ NoNavigation
    /\ NoTable
    /\ NoTrace
    /\ TimelineRendered(<<>>)
    /\ SessionRendered(<<>>)
    /\ NoNode

TreeViewNext ==
    \/ \E r \in 1..Len(traceTree.html) : ToggleClick(r)
    \/ \E r \in 1..Len(traceTree.html) : NodeClick(r)
    \/ \E k \in 1..Len(traceTree.events) : TreeSelectEvent(traceTree.events[k].id)
    \/ TreeRefresh

TreeViewSpec == TreeViewInit /\ [][TreeViewNext]_vars

(***************************************************************************)
(* Properties of the live-update coordinator (specification Spec).         *)
(***************************************************************************)
Subscribed(i) == i \in Range(wsListeners)

\* view i has been navigated away from: route() has run again since
TornDown(i) == i < Cur

\* this step is the timer handler of view i and it calls api()
FireQueries(i) == TimerFire(i) /\ Len(views'[i].queries) > Len(views[i].queries)

\* C1: signals that arrive while a refresh is pending are coalesced: a view
\* never has more than one timeout pending, a message that arrives while
\* one is pending sets no timer and issues no query, and the handler of the
\* one timer issues at most one query.
C1_SignalsCoalesced ==
    [][\A i \in DOMAIN views :
          /\ views'[i].timers <= 1
          /\ Len(views'[i].queries) <= Len(views[i].queries) + 1
          /\ (dbVersion' /= dbVersion /\ views[i].timers > 0)
                => /\ views'[i].timers = views[i].timers
                   /\ views'[i].queries = views[i].queries]_vars

\* a second signal has arrived while the timer of a subscribed view is pending
C1_Witness ==
    \E i \in DOMAIN views :
        Subscribed(i) /\ views[i].timers = 1 /\ views[i].coalesced

\* C2 (as claimed): a view that was navigated away from performs no refresh
\* for a signal that arrived after the navigation: its timer handler never
\* issues a query for a timer that was set while the view was torn down.
C2_NoRefreshAfterTeardown ==
    [][\A i \in DOMAIN views : FireQueries(i) => views[i].armedLive]_vars

\* C3 (as claimed): a timer pending when its view is torn down is cancelled:
\* the handler of a timer set while the view was the displayed one never
\* runs once the view is torn down.
C3_PendingTimerCancelled ==
    [][\A i \in DOMAIN views :
          TimerFire(i) => ~(TornDown(i) /\ views[i].armedLive)]_vars

\* C4 (as claimed): the timer handler of a view calls the query interface
\* only if the location read at fire time is that view's location.
C4_QueryOnlyIfDisplayed ==
    [][\A i \in DOMAIN views : FireQueries(i) => hash = views[i].hash]_vars

\* C5 (as claimed): a response that resolves after its view was torn down
\* touches nothing: #content always belongs to the most recent navigation
\* and content._cleanup is never the closure of an older view.
C5_StaleResponseInert ==
    /\ content.owner = Cur
    /\ cleanup \in {0, Cur}

\* C6: a render triggered by the coordinator shows data of a query issued
\* in the timer handler: a query, when issued, carries the server's data of
\* that moment, which is no older than the last signal that went into the
\* refresh, and a view that is mounted changes what it shows only to the
\* data of one of its own queries in flight.
C6_RefreshUsesFreshData ==
    [][\A i \in DOMAIN views :
          /\ Len(views'[i].queries) > Len(views[i].queries)
                => /\ views'[i].queries[Len(views'[i].queries)] = dbVersion
                   /\ views'[i].queries[Len(views'[i].queries)] >= views[i].sigVer
                   /\ views[i].timers > 0
          /\ (views[i].pc = "live" /\ views'[i].shown /= views[i].shown)
                => \E k \in 1..Len(views[i].queries) :
                       views'[i].shown = views[i].queries[k]]_vars

\* the first view, mounted with version 0, shows newer data: a refresh rendered
C6_Witness == views[1].pc = "live" /\ views[1].shown > 0

\* C7 (as claimed): for one view no refresh is scheduled or started while a
\* refresh query is unresolved, at most one query is in flight, and an
\* older result never replaces a newer one.
C7_NoOverlap ==
    [][\A i \in DOMAIN views :
          /\ Len(views'[i].queries) <= 1
          /\ Len(views'[i].queries) = 1 => views'[i].timers = 0
          /\ views[i].pc = "live" => views'[i].shown >= views[i].shown]_vars

\* the listeners' state after a message: a refresh is pending for every
\* subscribed view
RefreshPendingForAll ==
    \A i \in DOMAIN views : Subscribed(i) => views'[i].timers > 0 /\ views'[i].refreshTimer

C9_FailedRefreshKeepsView ==
    [][rejected' =>
          /\ content' = content
          /\ \E i \in DOMAIN views : \E k \in 1..Len(views[i].queries) :
                views' = [views EXCEPT ![i].queries = RemoveAt(@, k)]
          /\ \A i \in DOMAIN views :
                (Subscribed(i) /\ views'[i].timers = 0) => ~views'[i].refreshTimer]_vars

\* a refresh query of a view that shows data has just been rejected
C9_Witness ==
    /\ rejected
    /\ \E i \in DOMAIN views : views[i].pc = "live" /\ views[i].shown >= 0

\* C37 (as claimed): across every interleaving of navigations, query
\* completions, timer handlers and cleanup polls, at most one listener of a
\* live view is registered on the notification channel, and it is the
\* listener of the view now displayed; the cleanup stored on the container
\* is that view's, never an earlier one's, so no view stays subscribed once
\* it has been left.
C37_OneSubscriptionOfDisplayedView ==
    /\ Len(wsListeners) <= 1
    /\ \A i \in DOMAIN views : Subscribed(i) => i = Cur /\ views[i].hash = hash
    /\ \A i \in DOMAIN views :
          (Subscribed(i) /\ Kind(i) = "traces") => cleanup = i

\* the signal of data version ver has reached view i, displayed and
\* subscribed, and no timer handler of the view has run since
SignalWaits(i, ver) ==
    /\ i \in DOMAIN views
    /\ i = Cur
    /\ Subscribed(i)
    /\ views[i].sigVer = ver

\* a query of view i is in flight that was issued when the data had version
\* ver or later, or the view is no longer displayed and subscribed
QueriedSince(i, ver) ==
    \/ i /= Cur
    \/ ~Subscribed(i)
    \/ \E k \in 1..Len(views[i].queries) : views[i].queries[k] >= ver

\* C38: no signal is lost while a live view stays displayed and subscribed:
\* after every signal that reaches the view a query is issued, if timeouts
\* that are due run, whether the signal arrives while the view is idle,
\* while a timer is pending, or while the query of an earlier refresh is in
\* flight.
C38_SignalLeadsToQuery ==
    \A i \in 1..MaxViews : \A ver \in 1..MaxMessages :
        SignalWaits(i, ver) ~> QueriedSince(i, ver)

\* C38 witness: a signal has reached the displayed view while the query of
\* an earlier refresh is in flight, and its timer is pending.
C38_Witness ==
    \E i \in DOMAIN views :
        /\ SignalWaits(i, dbVersion)
        /\ views[i].timers > 0
        /\ \E k \in 1..Len(views[i].queries) : views[i].queries[k] < dbVersion

(***************************************************************************)
(* Properties of the data table (specification TableSpec).                 *)
(***************************************************************************)
\* ceil(n / d) for d >= 1, as the least q with q * d >= n
CeilDiv(n, d) == CHOOSE q \in 0..n : q * d >= n /\ (q = 0 \/ (q - 1) * d < n)

FilteredCount == Len(getFilteredData(data, searchTerm))

LastPage ==
    (IF CeilDiv(FilteredCount, pageSize) > 1
     THEN CeilDiv(FilteredCount, pageSize) ELSE 1) - 1

\* C10: after every table state change (search input, sort-header click,
\* Prev, Next, page-button click) and the render that follows it, currentPage
\* lies in [0, max(1, ceil(filteredCount / pageSize)) - 1], for every row set
\* and every pageSize >= 1.
C10_CurrentPageClamped ==
    /\ pageSize >= 1
    /\ currentPage >= 0
    /\ currentPage <= LastPage

\* C10 witness: a search that keeps some rows and drops others, then a page
\* change to the last page of what is left.
C10_Witness ==
    /\ searchTerm /= <<>>
    /\ FilteredCount < Len(data)
    /\ currentPage > 0
    /\ currentPage = LastPage

\* C11: in every reachable table state the rendered page holds at most
\* pageSize rows; and when the search term matches no row the table has 0
\* filtered rows, 1 page, currentPage 0 and an empty page in the "No data"
\* state, without pagination buttons.
C11_PageWithinPageSize ==
    /\ Len(dom.pageData) <= pageSize
    /\ (searchTerm /= <<>> /\ \A k \in 1..Len(data) : ~RowMatches(data[k], ToLowerCase(searchTerm)))
          => /\ dom.results = 0
             /\ dom.totalPages = 1
             /\ currentPage = 0
             /\ dom.pageData = <<>>
             /\ dom.noData
             /\ dom.pageBtns = {}

\* C11 witness: more rows than one page holds and a term that matches none
\* of them.
C11_Witness ==
    /\ Len(data) > pageSize
    /\ searchTerm /= <<>>
    /\ dom.results = 0
    /\ dom.noData

\* what the table shows, over all pages: the filtered rows in sorted order
Sorted == getSortedData(getFilteredData(data, searchTerm), sortKey, sortDir)

\* C12: table sorting is idempotent: the sort for a key and direction applied
\* to its own output gives the same row order as applied once, for every row
\* set, columns that mix numbers, strings and null values included.
C12_SortIdempotent ==
    sortKey /= NoSortKey => getSortedData(Sorted, sortKey, sortDir) = Sorted

Filtered == getFilteredData(data, searchTerm)

\* the place of the k-th filtered row in a stable ordering by the active key:
\* after the rows that compare less than it and after the rows before it that
\* compare equal to it
StableRank(k) ==
    1 + Cardinality({m \in 1..Len(Filtered) :
                        Compare(Filtered[m], Filtered[k], sortKey, sortDir) < 0})
      + Cardinality({m \in 1..(k - 1) :
                        Compare(Filtered[m], Filtered[k], sortKey, sortDir) = 0})

\* C13: with an active sort key the displayed order is a stable ordering of
\* the filtered rows by that key, the comparison being numeric for two
\* numbers and by lower-cased strings for any other pair, null as the empty
\* value, reversed when descending: every filtered row stands at its place in
\* that ordering, rows that compare equal in their filtered order.
C13_StableOrderByKey ==
    sortKey /= NoSortKey =>
        /\ Len(Sorted) = Len(Filtered)
        /\ \A k \in 1..Len(Filtered) :
              /\ StableRank(k) <= Len(Sorted)
              /\ Sorted[StableRank(k)] = Filtered[k]

\* the string form of a cell: the digits of a number, the characters of a
\* string, nothing for null
StringForm(val) ==
    CASE val.t = "number" -> Digits(val.n)
      [] val.t = "string" -> val.s
      [] OTHER -> <<>>

\* two characters that differ at most in case
SameLetter(a, b) == LowerChar(a) = LowerChar(b)

\* s contains term, case-insensitively: some stretch of s has the length of
\* term and its letters
ContainsTerm(s, term) ==
    \E i \in 1..(Len(s) + 1) :
        /\ i + Len(term) - 1 <= Len(s)
        /\ \A j \in 1..Len(term) : SameLetter(s[i + j - 1], term[j])

InFilteredSet(row) ==
    \/ searchTerm = <<>>
    \/ \E c \in 1..Len(Columns) : ContainsTerm(StringForm(row[Columns[c]]), searchTerm)

\* C14: a row is in the filtered set exactly when the search term is empty or
\* the string form of at least one column's value contains the term,
\* case-insensitively; the set is computed from the full row set at every
\* render, so a shorter or cleared term brings back the rows an earlier term
\* excluded.
C14_FilterMatchesTerm ==
    /\ Filtered = SelectSeq(data, InFilteredSet)
    /\ dom.results = Len(SelectSeq(data, InFilteredSet))

\* C14 witness: a term that keeps some rows of the table and excludes others.
C14_Witness ==
    /\ searchTerm /= <<>>
    /\ dom.results > 0
    /\ dom.results < Len(data)

\* C15: a click on the header of the active sort key flips the direction
\* between asc and desc and keeps the key; a click on any other header makes
\* that key active with direction asc, whatever the direction was.
C15_ToggleSort ==
    [][\A c \in 1..Len(Columns) :
          SortClick(Columns[c]) =>
              /\ sortKey' = Columns[c]
              /\ sortKey = Columns[c] => sortDir' /= sortDir /\ sortDir' \in {"asc", "desc"}
              /\ sortKey /= Columns[c] => sortDir' = "asc"]_vars

\* C15 witness: the active header was clicked again, the sort is descending.
C15_Witness == sortKey /= NoSortKey /\ sortDir = "desc"

\* a step of one of the page handlers
PageStep == PrevClick \/ NextClick \/ \E page \in dom.pageBtns : PageClick(page)

\* C16: a change of the search term sets currentPage to 0 and leaves sort key
\* and direction as they are; a change of the sort or of the page leaves the
\* search term as it is.
C16_SearchResetsPageOnly ==
    [][/\ (\E term \in Terms : SearchInput(term))
            => currentPage' = 0 /\ sortKey' = sortKey /\ sortDir' = sortDir
       /\ ((\E c \in 1..Len(Columns) : SortClick(Columns[c])) \/ PageStep)
            => searchTerm' = searchTerm]_vars

\* C16 witness: a sorted table with a search term in force, moved off its
\* first page.
C16_Witness ==
    /\ searchTerm /= <<>>
    /\ sortKey /= NoSortKey
    /\ sortDir = "desc"
    /\ currentPage > 0

\* C17: a refresh of the traces list gives the table fresh rows and leaves
\* its sort key, sort direction and search term as they were, and its
\* current page too, but for clamping to the pages of the fresh rows.
C17_RefreshKeepsViewState ==
    [][\A d \in FreshData(data) :
          RefreshTable(d) =>
              /\ sortKey' = sortKey
              /\ sortDir' = sortDir
              /\ searchTerm' = searchTerm
              /\ currentPage' =
                    ClampPage(currentPage,
                              TotalPages(Len(getFilteredData(d, searchTerm)), pageSize))]_vars

\* the rows render() puts on page p of the sorted rows
PageRows(sorted, p) == Slice(sorted, p * pageSize, p * pageSize + pageSize)

\* the rows of pages 0 .. n - 1, one page after the other
RECURSIVE PagesConcat(_, _)
PagesConcat(sorted, n) ==
    IF n = 0 THEN <<>>
    ELSE PagesConcat(sorted, n - 1) \o PageRows(sorted, n - 1)

\* for the rows, search term and sort of the state: the count of pages is
\* the one render() computed, the rows of pages 0 .. totalPages - 1 one after
\* the other are the sorted filtered rows, every page but the last is full,
\* the last is not empty unless there are no rows, and the container shows
\* the rows of the current page
PagesPartition ==
    LET sorted == Sorted
        totalPages == dom.totalPages
    IN  /\ totalPages = TotalPages(Len(sorted), pageSize)
        /\ PagesConcat(sorted, totalPages) = sorted
        /\ \A p \in 0..(totalPages - 2) : Len(PageRows(sorted, p)) = pageSize
        /\ sorted /= <<>> => PageRows(sorted, totalPages - 1) /= <<>>
        /\ currentPage \in 0..(totalPages - 1)
        /\ dom.pageData = PageRows(sorted, currentPage)

\* C39: the pages of the table partition the sorted filtered rows: for the
\* rows, search term and sort of the state, the rows shown on pages
\* 0 .. totalPages - 1 one after the other are exactly the sorted filtered
\* sequence, so each filtered row is on exactly one page, and every page but
\* possibly the last holds exactly pageSize rows; and every page can be
\* reached through the buttons: Next leads from a page to the page after it,
\* Prev to the page before it, a page button to the page it names, and none
\* of them changes the rows, the search term or the sort.
C39_PagesPartitionRows ==
    /\ []PagesPartition
    /\ [][/\ currentPage' = currentPage + 1 \/ ~NextClick
          /\ currentPage' = currentPage - 1 \/ ~PrevClick
          /\ \A b \in dom.pageBtns : currentPage' = b \/ ~PageClick(b)]_vars

\* C39 witness: more pages than render() shows buttons for, the last of
\* them displayed, which has no button on the first page.
C39_Witness ==
    /\ dom.totalPages > MaxVisible
    /\ currentPage = dom.totalPages - 1
    /\ currentPage \notin PageButtons(0, dom.totalPages)
    /\ dom.pageData /= <<>>

(***************************************************************************)
(* Properties of the span tree (specification TreeSpec).                   *)
(***************************************************************************)
Nodes == 1..Len(events)
Roots == Range(tree.roots)

\* the nodes a walk from the nodes of S reaches in at most n steps down
RECURSIVE ReachFrom(_, _)
ReachFrom(S, n) ==
    IF n = 0 THEN S
    ELSE ReachFrom(S \cup UNION {Range(tree.children[k]) : k \in S}, n - 1)

InForest == ReachFrom(Roots, Len(events))

\* the places node k has in the forest: among the roots and among the
\* children of every node
Places(k) ==
    Cardinality({j \in 1..Len(tree.roots) : tree.roots[j] = k})
      + Cardinality({pj \in Nodes \X Nodes :
                        /\ pj[2] <= Len(tree.children[pj[1]])
                        /\ tree.children[pj[1]][pj[2]] = k})

\* C18: for every list of events with unique ids, every event is exactly one
\* node of the forest buildTree returns, reachable from a root, so the nodes
\* of the forest are as many as the events.
C18_EveryEventOneNode ==
    /\ \A k \in Nodes : Places(k) = 1
    /\ InForest = Nodes
    /\ Cardinality(InForest) = Len(events)

SelfParented(k) ==
    events[k].span_id /= NoSpan /\ events[k].parent_span_id = events[k].span_id

\* the first event, in input order, that declares the span of event k
FirstOfSpan(k) ==
    CHOOSE m \in Nodes :
        /\ events[m].span_id = events[k].span_id
        /\ \A j \in 1..(m - 1) : events[j].span_id /= events[k].span_id

\* C19: an event whose parent_span_id equals its own span_id is a root of the
\* forest, for every input, also when several events share that span_id.
C19_SelfParentIsRoot == \A k \in Nodes : SelfParented(k) => k \in Roots

\* C19 (amended): an event whose parent_span_id equals its own span_id is a
\* root when it is the first event of its span in input order; a later event
\* of that span is a child of the first one and not a root.
C19_SelfParentFirstOfSpanIsRoot ==
    \A k \in Nodes :
        SelfParented(k) =>
            IF FirstOfSpan(k) = k
            THEN k \in Roots
            ELSE k \notin Roots /\ k \in Range(tree.children[FirstOfSpan(k)])

\* C19 witness: a self-parented event that is the first of its span, in a
\* trace where another event names that span as its parent.
C19_Witness ==
    \E k \in Nodes :
        /\ SelfParented(k)
        /\ FirstOfSpan(k) = k
        /\ tree.children[k] /= <<>>

\* the node whose event is the resolvable parent of event k, 0 for none: the
\* first event that declares k's parent span, unless that is k itself
ResolvedParent(k) ==
    IF /\ events[k].parent_span_id /= NoSpan
       /\ \E m \in Nodes : events[m].span_id = events[k].parent_span_id
    THEN LET first == CHOOSE m \in Nodes :
                        /\ events[m].span_id = events[k].parent_span_id
                        /\ \A j \in 1..(m - 1) :
                              events[j].span_id /= events[k].parent_span_id
         IN  IF first = k THEN 0 ELSE first
    ELSE 0

\* the nodes of S in input order
InInputOrder(S) == SelectSeq([k \in Nodes |-> k], LAMBDA k : k \in S)

\* C20: sibling order is input order at every level: the roots are the events
\* without a resolvable parent, in input order, and the children of a node
\* are the events attached to it, in input order.
C20_SiblingsInInputOrder ==
    /\ tree.roots = InInputOrder({k \in Nodes : ResolvedParent(k) = 0})
    /\ \A p \in Nodes :
          tree.children[p] = InInputOrder({k \in Nodes : ResolvedParent(k) = p})

\* C20 witness: a node with two children, under a root that is not the first
\* event.
C20_Witness ==
    \E p \in Nodes :
        /\ p > 1
        /\ p \in Roots
        /\ Len(tree.children[p]) >= 2


\* the events that declare the span, and the first of them in input order
DeclaredBy(span) == {m \in Nodes : events[m].span_id = span}
Canonical(span) == CHOOSE m \in DeclaredBy(span) : \A j \in DeclaredBy(span) : m <= j

\* C21: when several events share a span_id, the canonical event of the span
\* is the first of them in input order: every other event whose
\* parent_span_id names the span is attached under the node of that first
\* event and under no later event of the span, and the later events are
\* nodes of their own, each placed once.
C21_FirstOfSpanIsCanonical ==
    \A span \in Spans :
        DeclaredBy(span) /= {} =>
            LET first == Canonical(span)
                later == DeclaredBy(span) \ {first}
            IN  /\ \A k \in Nodes \ {first} :
                      events[k].parent_span_id = span =>
                          /\ k \in Range(tree.children[first])
                          /\ \A m \in later : k \notin Range(tree.children[m])
                /\ \A m \in later : Places(m) = 1

\* C21 witness: two events share a span, and an event of another span that
\* names the span as its parent hangs under the first of the two.
C21_Witness ==
    \E span \in Spans :
        /\ Cardinality(DeclaredBy(span)) >= 2
        /\ \E k \in Nodes \ DeclaredBy(span) :
              /\ events[k].parent_span_id = span
              /\ k \in Range(tree.children[Canonical(span)])

\* the parent_span_id of event k is absent, matches no event's span_id, or
\* resolves to event k itself
Unparented(k) ==
    \/ events[k].parent_span_id = NoSpan
    \/ DeclaredBy(events[k].parent_span_id) = {}
    \/ Canonical(events[k].parent_span_id) = k

ChildOf(p, k) == k \in Range(tree.children[p])

\* the example of the specification: event 1 of span a, event 2 of span b
\* under a, event 3 with a parent no event declares
ThreeEvents ==
    <<[id |-> 1, span_id |-> "a", parent_span_id |-> NoSpan],
      [id |-> 2, span_id |-> "b", parent_span_id |-> "a"],
      [id |-> 3, span_id |-> NoSpan, parent_span_id |-> "missing"]>>

\* C22: an event is a root exactly when its parent_span_id is absent,
\* dangling or resolves to the event itself; otherwise it is a child of the
\* canonical event of its parent span and not a root.  Without span ids every
\* event is a root, and the three-event example gives root 1 with the single
\* child 2 and a second root 3.
C22_RootIffUnparented ==
    /\ \A k \in Nodes :
          IF Unparented(k)
          THEN k \in Roots /\ \A p \in Nodes : ~ChildOf(p, k)
          ELSE k \notin Roots /\ ChildOf(Canonical(events[k].parent_span_id), k)
    /\ (\A k \in Nodes : events[k].span_id = NoSpan) =>
          tree.roots = [k \in Nodes |-> k]
    /\ events = ThreeEvents =>
          tree = [roots |-> <<1, 3>>, children |-> <<(<<2>>), <<>>, <<>>>>]

\* C22 witness: the three-event example, built.
C22_Witness ==
    /\ events = ThreeEvents
    /\ Roots = {1, 3}
    /\ ChildOf(1, 2)

\* a forest over the events: roots and children are sequences of nodes
IsForest(f) ==
    /\ DOMAIN f = {"roots", "children"}
    /\ f.roots \in Seq(Nodes)
    /\ DOMAIN f.children = Nodes
    /\ \A p \in Nodes : f.children[p] \in Seq(Nodes)

\* two events that name each other's span as their parent
Cyclic ==
    \E k, m \in Nodes :
        /\ k /= m
        /\ events[k].span_id /= NoSpan
        /\ events[m].span_id /= NoSpan
        /\ events[k].parent_span_id = events[m].span_id
        /\ events[m].parent_span_id = events[k].span_id

ParentsOf(k) == {p \in Nodes : ChildOf(p, k)}

\* the nodes below node k
Descendants(k) == ReachFrom(Range(tree.children[k]), Len(events))

\* the tree nodes render() of the tree view writes for the forest, nothing
\* collapsed and nothing selected
RenderWalk ==
    renderTree([k \in Nodes |-> [events[k] EXCEPT !.id = Num(@)]], tree, Null, {})

\* C32: for every input, indirect parent cycles included, every node has at
\* most one parent and one place, and no node reachable from a root is its
\* own descendant; so the recursive render walk over the forest ends: it
\* visits every node reachable from a root once, at a depth below the number
\* of events.
C32_RenderWalkTerminates ==
    /\ \A k \in Nodes : Places(k) <= 1 /\ Cardinality(ParentsOf(k)) <= 1
    /\ \A k \in InForest : k \notin Descendants(k)
    /\ Len(RenderWalk) = Cardinality(InForest)
    /\ \A i \in 1..Len(RenderWalk) : RenderWalk[i].depth < Len(events)

\* C32 witness: a trace with two events that are each other's parent, beside
\* a root; the two are their own descendants and the walk does not reach
\* them.
C32_Witness ==
    /\ Cyclic
    /\ Roots /= {}
    /\ \E k \in Nodes \ InForest : k \in Descendants(k)


(***************************************************************************)
(* Properties of the timeline (specification TimelineSpec).                *)
(***************************************************************************)
Bars == 1..Len(timeline.rows)
Hundred == Frac(100, 1)
Zero == Frac(0, 1)
\* the sum of two fractions
FracAdd(a, b) == Frac(a.num * b.den + b.num * a.den, a.den * b.den)

\* C24: for every bar of the timeline, leftFraction + widthFraction <= 1,
\* that is left percent plus width percent is at most 100, for every event
\* list, zero-duration events at the end of the trace included.
C24_BarsEndWithinTrace ==
    \A b \in Bars :
        FracLeq(FracAdd(timeline.rows[b].leftPct, timeline.rows[b].widthPct), Hundred)

SetMax(S) == CHOOSE x \in S : \A y \in S : y <= x
SetMin(S) == CHOOSE x \in S : \A y \in S : x <= y

TimedEvents == 1..Len(timelineEvents)
EarliestTimestamp == SetMin({timelineEvents[k].timestamp : k \in TimedEvents})
LatestTimestamp == SetMax({timelineEvents[k].timestamp : k \in TimedEvents})
\* the end of an event: its timestamp plus its duration, its timestamp when
\* the duration is absent
EndOf(evt) ==
    IF evt.duration_ms = Null THEN evt.timestamp
    ELSE evt.timestamp + evt.duration_ms.n
LatestEnd == SetMax({EndOf(timelineEvents[k]) : k \in TimedEvents})

\* C25: for every non-empty event list the total duration of the timeline is
\* max(end - start, 1), so at least 1, also for a single event and for events
\* all at one instant without duration; no bar position is a division by 0.
C25_TotalDurationAtLeastOne ==
    timelineEvents /= <<>> =>
        /\ timeline.totalDuration
              = (IF LatestEnd - EarliestTimestamp > 1
                 THEN LatestEnd - EarliestTimestamp ELSE 1)
        /\ timeline.totalDuration >= 1
        /\ \A b \in Bars :
              /\ timeline.rows[b].leftPct.den >= 1
              /\ timeline.rows[b].widthPct.den >= 1

\* C25 witness: several events at one instant, none with a duration.
C25_Witness ==
    /\ Len(timelineEvents) >= 2
    /\ LatestEnd = EarliestTimestamp
    /\ timeline.totalDuration = 1

\* C26: the trace start is the least timestamp of the events, the trace end
\* is the greatest of timestamp + duration (timestamp when the duration is
\* absent) and never before the latest timestamp; so the left edge of every
\* bar is between 0 and 100 percent.
C26_TraceSpansAllEvents ==
    timelineEvents /= <<>> =>
        /\ timeline.traceStart = EarliestTimestamp
        /\ timeline.traceEnd = LatestEnd
        /\ timeline.traceEnd >= LatestTimestamp
        /\ \A b \in Bars :
              /\ FracLeq(Zero, timeline.rows[b].leftPct)
              /\ FracLeq(timeline.rows[b].leftPct, Hundred)

\* C26 witness: a trace that starts after the epoch and ends with the
\* duration of its last event, after the latest timestamp.
C26_Witness ==
    /\ Len(timelineEvents) >= 2
    /\ timeline.traceStart > 0
    /\ timeline.traceEnd > LatestTimestamp
    /\ \E b \in Bars : timeline.rows[b].leftPct.num > 0


\* C36: rendering the timeline, at first, on a selection and on refresh,
\* does not change its input: the caller's array of events keeps its order
\* and its contents; a row click and selectEvent change the selected id and
\* nothing else of the state, refresh changes nothing, and what is shown is
\* computed anew from the events and the selected id at every render.
C36_RenderKeepsInput ==
    [][/\ timelineEvents' = timelineEvents
       /\ timeline' = renderTimeline(timelineEvents, selectedId')
       /\ \A r \in 1..Len(timeline.rows) :
             RowClick(r) => selectedId' = DataEventId(timeline.rows[r].id)
       /\ Refresh => selectedId' = selectedId /\ timeline' = timeline]_vars

\* C36 witness: a timeline whose events were not given in time order, its
\* rows in time order, after a row was clicked.
C36_Witness ==
    /\ selectedId /= Null
    /\ \E k \in 1..(Len(timelineEvents) - 1) :
          timelineEvents[k].timestamp > timelineEvents[k + 1].timestamp
    /\ \E r \in 1..Len(timeline.rows) : timeline.rows[r].id /= timelineEvents[r].id

(***************************************************************************)
(* Properties of the session view and its JSON viewers (SessionSpec).      *)
(***************************************************************************)
Cards == 1..Len(sessionEvents)

\* the node is rendered collapsed when renderValue reaches it
IsCollapsed(viewer, addr) == PathOf(addr) \in viewer.collapsed

\* C27: a click on the toggle of one composite node of a JSON tree flips the
\* collapsed state of that node and of no other node: every other composite
\* node of the value keeps its state across the re-render.
C27_ToggleFlipsOneNode ==
    [][\A k \in Cards : \A addr \in CompositesIn(k) :
          JsonToggleClick(k, addr) =>
              /\ IsCollapsed(jsonViewers'[k], addr) = ~IsCollapsed(jsonViewers[k], addr)
              /\ \A other \in CompositesIn(k) \ {addr} :
                    IsCollapsed(jsonViewers'[k], other) = IsCollapsed(jsonViewers[k], other)
      ]_vars

\* C28: the collapse state of a view persists across its re-renders: when a
\* click on a card re-renders the session view, the JSON viewer of every
\* other card that stays expanded keeps its set of collapsed paths.
C28_CollapseSurvivesRerender ==
    [][\A j \in Cards :
          CardClick(j) =>
              \A k \in Cards \ {j} :
                  jsonViewers[k].shown =>
                      /\ jsonViewers'[k].shown
                      /\ jsonViewers'[k].collapsed = jsonViewers[k].collapsed
      ]_vars


(***************************************************************************)
(* Properties of the content preview (specification PreviewSpec).          *)
(***************************************************************************)
Previewed == preview.val.t /= "pending"

\* one of the payloads of the event is a string that is not JSON
ParseFails(evt) ==
    \E payload \in {evt.input, evt.output, evt.metadata} : payload.form = "text"

\* C29: getContentPreview never throws and returns a string, possibly empty,
\* for every event: missing payloads, payload strings that are not JSON,
\* fields of unexpected type and unknown event types; the string is empty
\* when a payload fails to parse.
C29_PreviewIsAlwaysString ==
    Previewed =>
        /\ ~preview.threw
        /\ preview.val.t = "string"
        /\ ParseFails(nodeEvent) => preview.val.s = <<>>

\* C29 witness: the preview of an event whose old_string is a number, which
\* extractText cannot slice, and whose metadata is not JSON.
C29_Witness ==
    /\ Previewed
    /\ nodeEvent.event_type = "PreToolUse"
    /\ nodeEvent.input = Object(<<"old_string">>, <<Num(5)>>)
    /\ nodeEvent.metadata.form = "text"
    /\ preview = Return(Str(<<>>))

\* every run of whitespace replaced by one space: the two halves of the text
\* are collapsed apart, and a run that spans the cut gives one space
RECURSIVE CollapseRuns(_)
CollapseRuns(s) ==
    IF s = <<>> THEN <<>>
    ELSE IF Len(s) = 1 THEN (IF s[1] \in Whitespace THEN <<" ">> ELSE s)
    ELSE LET mid == Len(s) \div 2
             left == CollapseRuns(SubSeq(s, 1, mid))
             right == CollapseRuns(SubSeq(s, mid + 1, Len(s)))
         IN  IF s[mid] \in Whitespace /\ s[mid + 1] \in Whitespace
             THEN left \o Tail(right)
             ELSE left \o right

\* whitespace removed from both ends
StripEnds(s) ==
    LET leading == Cardinality({i \in 1..Len(s) :
                                   \A j \in 1..i : s[j] \in Whitespace})
        trailing == Cardinality({i \in 1..Len(s) :
                                    \A j \in i..Len(s) : s[j] \in Whitespace})
    IN  IF leading = Len(s) THEN <<>>
        ELSE SubSeq(s, leading + 1, Len(s) - trailing)

\* the first 120 characters and the ellipsis, or the text itself
LengthLimited(s) ==
    IF Len(s) > MAX_LEN THEN SubSeq(s, 1, MAX_LEN) \o <<".", ".", ".">> ELSE s

\* the node shows the preview of a tool call whose input is a prompt text,
\* and every payload of the event parses
PromptPreviewed ==
    /\ Previewed
    /\ ~ParseFails(nodeEvent)
    /\ nodeEvent.event_type = "PreToolUse"
    /\ nodeEvent.input.form = "object"
    /\ nodeEvent.input.keys = <<"prompt">>
    /\ nodeEvent.input.vals[1].t = "string"

NoDoubleWhitespace(s) ==
    \A i \in 1..(Len(s) - 1) : ~(s[i] \in Whitespace /\ s[i + 1] \in Whitespace)

\* C30: a non-empty preview is the text with its runs of whitespace collapsed
\* to single spaces and then limited in length: the first 120 characters of
\* the collapsed text and the ellipsis when the collapsed text is longer than
\* 120 characters, the collapsed text itself otherwise; no preview has two
\* whitespace characters in a row.
C30_CollapsedThenLimited ==
    /\ PromptPreviewed =>
          preview.val.s = LengthLimited(CollapseRuns(nodeEvent.input.vals[1].s))
    /\ Previewed => NoDoubleWhitespace(preview.val.s)

\* C30 (amended): as C30, with the whitespace at both ends of the collapsed
\* text removed before its length is taken.
C30_CollapsedTrimmedThenLimited ==
    /\ PromptPreviewed =>
          preview.val.s
              = LengthLimited(StripEnds(CollapseRuns(nodeEvent.input.vals[1].s)))
    /\ Previewed => NoDoubleWhitespace(preview.val.s)

\* C30 witness: a text with a run of whitespace inside that is longer than
\* 120 characters after the run is collapsed; its preview ends in the
\* ellipsis.
C30_Witness ==
    /\ PromptPreviewed
    /\ ~NoDoubleWhitespace(nodeEvent.input.vals[1].s)
    /\ Len(CollapseRuns(nodeEvent.input.vals[1].s)) > MAX_LEN
    /\ Len(preview.val.s) = MAX_LEN + 3

\* the fields extractText knows by name
KnownFields ==
    {"prompt", "message", "content", "file_path", "command", "pattern",
     "query", "url", "old_string", "description"}

\* the places of the keys of an object whose value is a string, a number or
\* a boolean
ScalarKeys(object) ==
    {i \in 1..Len(object.keys) : object.vals[i].t \in {"string", "number", "boolean"}}

\* the string form of the value of the first scalar-valued key, empty for none
FirstScalarText(object) ==
    IF ScalarKeys(object) = {} THEN <<>>
    ELSE JsString(object.vals[CHOOSE i \in ScalarKeys(object) :
                                 \A j \in ScalarKeys(object) : i <= j])

\* a PreToolUse node whose input is an object with none of the known fields,
\* after renderNode has written its preview
UnknownFieldsPreviewed ==
    /\ Previewed
    /\ ~ParseFails(nodeEvent)
    /\ nodeEvent.event_type = "PreToolUse"
    /\ nodeEvent.input.form \in {"object", "json"}
    /\ Range(nodeEvent.input.keys) \cap KnownFields = {}

\* C31: when the payload object has none of the known preview fields, the
\* preview is the (truncated) string form of the first key, in key order,
\* whose value is a string, a number or a boolean; it is empty only if the
\* payload has no scalar-valued key.
C31_FallbackToFirstScalarKey ==
    UnknownFieldsPreviewed =>
        /\ preview = Return(Str(truncate(Str(FirstScalarText(nodeEvent.input)))))
        /\ (preview.val.s = <<>> => ScalarKeys(nodeEvent.input) = {})

\* the text before the first line break
FirstLineOf(s) ==
    LET breaks == {i \in 1..Len(s) : s[i] = "\n"}
    IN  IF breaks = {} THEN s
        ELSE SubSeq(s, 1, (CHOOSE i \in breaks : \A j \in breaks : i <= j) - 1)

\* a PostToolUse node whose output is a string that is not JSON text, its
\* other payloads absent or well-formed, after renderNode has written its
\* preview
BlobPreviewed ==
    /\ Previewed
    /\ nodeEvent.event_type = "PostToolUse"
    /\ nodeEvent.output.form = "text"
    /\ nodeEvent.input.form /= "text"
    /\ nodeEvent.metadata.form /= "text"

\* C35: for a PostToolUse event whose output is a plain string blob that is
\* not JSON text, the preview is the truncated first line of that string.
C35_BlobPreviewIsFirstLine ==
    BlobPreviewed =>
        preview = Return(Str(truncate(Str(FirstLineOf(nodeEvent.output.text)))))

(***************************************************************************)
(* Properties of the trace tree view (specification TreeViewSpec).         *)
(***************************************************************************)
ViewNodes == 1..Len(traceTree.events)

\* the nodes a walk down from the nodes of S reaches in at most n steps
RECURSIVE Below(_, _)
Below(S, n) ==
    IF n = 0 THEN S
    ELSE Below(S \cup UNION {Range(traceTree.roots.children[k]) : k \in S}, n - 1)

\* the nodes of the forest, and the nodes under node a
InView == Below(Range(traceTree.roots.roots), Len(traceTree.events))
Under(a) == Below(Range(traceTree.roots.children[a]), Len(traceTree.events))

\* the nodes the last render() wrote
Shown == {traceTree.html[i].node : i \in 1..Len(traceTree.html)}

\* the id of node k, as the markup and the handlers have it, is in the
\* collapsed set
InCollapsed(k) == DataEventId(traceTree.events[k].id) \in traceTree.collapsed

\* a node of the forest is rendered exactly when none of the nodes above it
\* is in the collapsed set
ShownIffNoAncestorCollapsed ==
    \A k \in InView :
        k \in Shown <=> \A a \in ViewNodes : k \in Under(a) => ~InCollapsed(a)

\* C33: in the trace tree view a node is rendered exactly when none of its
\* ancestors is in the collapsed set; a toggle of a node with children flips
\* the membership of that node alone, so that a second toggle gives the
\* rendering before the first; a node click, selectEvent and refresh leave
\* the collapsed set as it is.
C33_CollapseHidesDescendants ==
    [][/\ ShownIffNoAncestorCollapsed'
       /\ \A r \in 1..Len(traceTree.html) :
             ToggleClick(r) =>
                 LET id == DataEventId(traceTree.html[r].id)
                 IN  /\ traceTree.collapsed' \in {traceTree.collapsed \cup {id},
                                                  traceTree.collapsed \ {id}}
                     /\ traceTree.collapsed' /= traceTree.collapsed
                     /\ renderTree(traceTree.events, traceTree.roots,
                                   traceTree.selectedId', traceTree.collapsed)
                            = traceTree.html
       /\ ((\E r \in 1..Len(traceTree.html) : NodeClick(r))
              => traceTree.collapsed' = traceTree.collapsed)
       /\ ((\E k \in ViewNodes : TreeSelectEvent(traceTree.events[k].id))
              => traceTree.collapsed' = traceTree.collapsed)
       /\ (TreeRefresh => traceTree.collapsed' = traceTree.collapsed)]_vars

\* the rows of the tree, and of the timeline, that are rendered selected
SelectedNodes(html) == {i \in 1..Len(html) : html[i].selected}

\* C34: a click on the row of an event, in the trace tree and in the
\* timeline, makes that event the one selected row and calls onSelect once,
\* with that event, whether the ids of the events are numbers or strings.
C34_ClickSelectsEvent ==
    [][/\ \A r \in 1..Len(traceTree.html) :
             NodeClick(r) =>
                 /\ SelectedNodes(traceTree.html') = {r}
                 /\ traceTree.onSelectCalls' =
                        <<traceTree.events[traceTree.html[r].node]>>
       /\ \A r \in 1..Len(timeline.rows) :
             RowClick(r) =>
                 /\ SelectedNodes(timeline.rows') = {r}
                 /\ Len(onSelectCalls') = 1
                 /\ onSelectCalls'[1] \in Range(timelineEvents)
                 /\ onSelectCalls'[1].id = timeline.rows[r].id]_vars

=============================================================================
